---- MODULE Spec2Model ----
(***************************************************************************)
(* Model of the Go client for the Claude Code CLI (src/claude.go).         *)
(*                                                                         *)
(* One query is modelled from the call of Query or QueryStream to its end. *)
(* The state is the child process and its three pipes, the context, the    *)
(* orchestrating goroutine (the body of Query, or the goroutine started by *)
(* QueryStream), the sendPrompt goroutine, the two channels of QueryStream *)
(* and the caller, who receives from the channels and may cancel.          *)
(* There the output lines are of abstract kinds (Spec).                    *)
(*                                                                         *)
(* The decoder (parseMessage and what it calls) is modelled on JSON values *)
(* and checked on its own: one line is drawn from a bounded set of lines   *)
(* and decoded as the read loops decode it (DecSpec).                      *)
(*                                                                         *)
(* The options, the search for the executable and the command line are     *)
(* checked under options and machines drawn from bounded sets, the child   *)
(* writing its whole output in one step (CmdSpec).                         *)
(*                                                                         *)
(* The library calls of the source are modelled by their documented        *)
(* behaviour (Go 1.21, the version README.md requires):                    *)
(*  - exec.CommandContext: once the context is done, a watcher goroutine   *)
(*    of os/exec signals the started, not yet waited-for process; Start    *)
(*    fails with ctx.Err() when the context is already done;               *)
(*  - cmd.Wait: returns *ExitError for a non-zero or signalled exit,       *)
(*    otherwise the watcher's error (ctx.Err() when it signalled), and     *)
(*    closes the parent's ends of StdinPipe, StdoutPipe and StderrPipe;    *)
(*  - a read of a pipe end that Wait has closed fails;                     *)
(*  - select: among the cases that can proceed one is chosen arbitrarily;  *)
(*    a goroutine blocked in select proceeds with the case that becomes    *)
(*    ready first;                                                         *)
(*  - close(ch) keeps the buffered values receivable.                      *)
(***************************************************************************)
EXTENDS Naturals, Integers, Sequences, FiniteSets, TLC

\* ------------------------------------------------------------------ bounds
\* Child outputs of up to MaxLines lines of any kind are explored, and outputs
\* of well-formed lines only of up to MsgChanCap + MaxExtra lines (enough to
\* fill the message channel, block the next send and leave a line unread).
MaxLines == 3
MaxExtra == 2
\* Exit codes 0..MaxExit of a child that ends on its own.
MaxExit == 1

\* --------------------------------------------------------- program constants
\* make(chan Message, 10)
MsgChanCap == 10
\* make(chan error, 1)
ErrChanCap == 1
\* exitError.ExitCode() of a process ended by a signal
KilledExitCode == -1
\* ExitCode: -1 in handleReadError
ReadErrorExitCode == -1

\* The kinds of line the child can write on its output:
\*   "ok"      a JSON object that parseMessage turns into a Message
\*   "empty"   the empty line
\*   "badjson" json.Unmarshal into a map fails
\*   "badmsg"  valid JSON object that parseMessage rejects
\*   "toolong" longer than bufio.Scanner's token limit: Scan stops with an error
LineKinds == {"ok", "empty", "badjson", "badmsg", "toolong"}

\* Diagnostic texts a child may have written to its stderr when it exits.
Diags == {"", "auth failed"}

APIs == {"Query", "QueryStream"}

VARIABLES
    api,          \* which entry point runs
    waitsEOF,     \* the child writes output only after end-of-input on stdin
    ctxDone,      \* the caller's context is cancelled
    watchFired,   \* os/exec's context watcher has signalled the process
    child,        \* "none" | "running" | "exited" | "killed"
    exitCode,     \* exit status of an exited child
    out,          \* lines the child has written to stdout so far
    errPipe,      \* text the child has written to stderr
    stdin,        \* "none" | "open" | "closed": the parent's end of stdin
    promptWrites, \* successful writes of the prompt to stdin
    waited,       \* cmd.Wait has returned (the parent's pipe ends are closed)
    pc,           \* position of the orchestrating goroutine
    rd,           \* lines the scanner has taken from stdout
    cur,          \* line whose message the blocked send holds (0: none)
    messages,     \* Query: the list readMessages accumulates
    ret,          \* Query: what it returned
    spc,          \* sendPrompt goroutine: "none" | "ready" | "done"
    msgChan,      \* buffer of messageChan
    msgClosed,
    errChan,      \* buffer of errorChan
    errClosed,
    sent,         \* history: messages placed on messageChan
    errSent,      \* history: errors placed on errorChan
    received,     \* caller: messages received
    errsReceived, \* caller: errors received
    cancelAt,     \* caller: number of messages received when it cancelled (-1: not)
    sawClosed,    \* caller: errors received when it saw messageChan closed (-1: not)
    stderrRead,   \* history: io.ReadAll(stderr) has been called
    rawLine,      \* decoder: the output line it is given
    dec,          \* decoder: what decoding the line gave
    again,        \* decoder: what decoding the same line once more gave
    seen,         \* caller: what the methods of the decoded message returned
    opts,         \* the Options the caller passed
    host,         \* the files and programs of the host
    cmd,          \* the exec.Cmd that was built (NoCmd: none)
    strategy      \* history: how the output was read, "none" | "text" | "lines"

vars == <<api, waitsEOF, ctxDone, watchFired, child, exitCode, out, errPipe,
          stdin, promptWrites, waited, pc, rd, cur, messages, ret, spc,
          msgChan, msgClosed, errChan, errClosed, sent, errSent,
          received, errsReceived, cancelAt, sawClosed, stderrRead,
          rawLine, dec, again, seen,
          opts, host, cmd, strategy>>

procVars == <<api, waitsEOF, ctxDone, watchFired, child, exitCode, out,
              errPipe, stdin, promptWrites, waited, pc, rd, cur, messages,
              ret, spc, msgChan, msgClosed, errChan, errClosed, sent, errSent,
              received, errsReceived, cancelAt, sawClosed, stderrRead>>
decVars == <<rawLine, dec, again, seen>>
cmdVars == <<opts, host, cmd, strategy>>
obsVars == <<sawClosed, stderrRead>>
procOnly == <<api, waitsEOF, ctxDone, watchFired, child, exitCode, out, errPipe,
              stdin, promptWrites, waited, pc, rd, cur, messages, ret, spc,
              msgChan, msgClosed, errChan, errClosed, sent, errSent,
              received, errsReceived, cancelAt>>
childVars == <<child, exitCode, out, errPipe>>
chanVars == <<msgChan, msgClosed, errChan, errClosed, sent, errSent>>
callerVars == <<received, errsReceived, cancelAt>>
queryVars == <<messages, ret>>

\* ------------------------------------------------------------------ values
\* An error value: its Go type and the fields the claims read.
Err(class, msg, code, text, line) ==
    [class |-> class, msg |-> msg, exitCode |-> code, stderr |-> text, line |-> line]

NoErr == Err("nil", "", 0, "", 0)
CLINotFoundError == Err("CLINotFoundError", "", 0, "", 0)
CLIConnectionError(msg) == Err("CLIConnectionError", msg, 0, "", 0)
ProcessError(code, text) == Err("ProcessError", "", code, text, 0)
CLIJSONDecodeError(line) == Err("CLIJSONDecodeError", "", 0, "", line)
CtxErr == Err("context.Canceled", "", 0, "", 0)

\* The Message decoded from line i of the output.
Msg(i) == [line |-> i]

Terminated == child \in {"exited", "killed"}

\* scanner.Scan() has a line to return / reports the end of the stream.
LineReady == rd < Len(out)
AtEOFEarly == Terminated
AtEOF == Terminated /\ rd = Len(out)

\* ProcessState.ExitCode()
ChildExitCode == IF child = "killed" THEN KilledExitCode ELSE exitCode

\* ------------------------------------------------------------ JSON values
\* What encoding/json produces for one output line, as tagged values. An
\* object is a record over the keys the decoder reads, a key that the
\* object does not have holding Absent. (TLC compares two records field by
\* field in the order in which the field names first occur in the module:
\* the tag t, then the value v, so that values of different tags are told
\* apart by their tags.)
Absent == [t |-> "absent"]
JNull == [t |-> "null"]
JStr(s) == [t |-> "string", v |-> s]
JBool(b) == [t |-> "bool", v |-> b]
JArr(elems) == [t |-> "array", v |-> elems]
JObj(fields) == [t |-> "object", v |-> fields]
\* A number literal m * 10^e as written on the line.
JNum(m, e) == [t |-> "number", v |-> [m |-> m, e |-> e]]

\* strconv.ParseFloat, which encoding/json uses for a number stored in an
\* interface{}: a literal below the range of float64 becomes 0 without an
\* error (with a mantissa of a few digits, every decimal exponent under
\* Float64MinExp10 is below the range).
Float64MinExp10 == -330
Float64(lit) ==
    IF lit.m = 0 \/ lit.e < Float64MinExp10 THEN [m |-> 0, e |-> 0] ELSE lit

\* v.(string), v.(float64), v.(bool) with the zero value when the assertion
\* fails; the key is present (`_, ok := m[key]`).
IsString(x) == x.t = "string"
IsObject(x) == x.t = "object"
Present(x) == x.t # "absent"
StringOr(x) == IF IsString(x) THEN x.v ELSE ""
Float64Or(x) == IF x.t = "number" THEN Float64(x.v) ELSE [m |-> 0, e |-> 0]
BoolOr(x) == IF x.t = "bool" THEN x.v ELSE FALSE

\* A *T field: nil or a pointer to a value.
Nil == [t |-> "nil"]
Ptr(x) == [t |-> "ptr", v |-> x]

\* The text of an output line as the scanner returned it, and the text
\* fmt.Sprintf("%v", x) makes of a decoded value x. A line that decodes into
\* a map starts with `{` (or is `null`); the %v form of a map starts with
\* `map[`, and the %v form of a part of the line is not the line: the two
\* texts are never equal.
RawLine(l) == [form |-> "line", of |-> l]
Sprintf(x) == [form |-> "%v", of |-> x]
NoData == [form |-> "none", of |-> Absent]

\* &CLIJSONDecodeError{Data: data, Cause: cause}
DecodeError(data, cause) ==
    [class |-> "CLIJSONDecodeError", data |-> data, cause |-> cause]
NoDecodeError == [class |-> "nil", data |-> NoData, cause |-> ""]

\* -------------------------------------------------------- content blocks
\* The keys of a content-block object.
BlockObj(type, text, id, name, tool_use_id, content, is_error) ==
    JObj([type |-> type, text |-> text, id |-> id, name |-> name,
          tool_use_id |-> tool_use_id, content |-> content,
          is_error |-> is_error])

\* A ContentBlock: *TextBlock, *ToolUseBlock or *ToolResultBlock.
Block(variant, text, id, name, toolUseID, content, isError) ==
    [variant |-> variant, Text |-> text, ID |-> id, Name |-> name,
     ToolUseID |-> toolUseID, Content |-> content, IsError |-> isError]
TextBlock(text) == Block("text", text, "", "", "", Absent, FALSE)
ToolUseBlock(id, name) == Block("tool_use", "", id, name, "", Absent, FALSE)
ToolResultBlock(toolUseID, content, isError) ==
    Block("tool_result", "", "", "", toolUseID, content, isError)
NoBlock == Block("none", "", "", "", "", Absent, FALSE)

\* (ContentBlock, error) and ([]ContentBlock, error)
BlockOk(b) == [ok |-> TRUE, block |-> b, err |-> NoDecodeError]
BlockErr(e) == [ok |-> FALSE, block |-> NoBlock, err |-> e]
BlocksOk(bs) == [ok |-> TRUE, blocks |-> bs, err |-> NoDecodeError]
BlocksErr(e) == [ok |-> FALSE, blocks |-> <<>>, err |-> e]

\* parseContentBlock with a text block that needs no `text`.
parseContentBlockLenientText(rawBlock) ==
    IF ~IsObject(rawBlock)
    THEN IF IsString(rawBlock)
         THEN BlockOk(TextBlock(rawBlock.v))
         ELSE BlockErr(DecodeError(Sprintf(rawBlock), "invalid content block format"))
    ELSE LET blockMap == rawBlock.v IN
         IF ~IsString(blockMap.type)
         THEN IF IsString(blockMap.text)
              THEN BlockOk(TextBlock(blockMap.text.v))
              ELSE BlockErr(DecodeError(Sprintf(rawBlock), "missing content block type"))
         ELSE CASE blockMap.type.v = "text" ->
                     BlockOk(TextBlock(StringOr(blockMap.text)))
                [] blockMap.type.v = "tool_use" ->
                     BlockOk(ToolUseBlock(StringOr(blockMap.id), StringOr(blockMap.name)))
                [] blockMap.type.v = "tool_result" ->
                     BlockOk(ToolResultBlock(StringOr(blockMap.tool_use_id),
                                             blockMap.content, BoolOr(blockMap.is_error)))
                [] OTHER ->
                     BlockErr(DecodeError(Sprintf(rawBlock), "unknown content block type"))

\* parseContentBlock(rawBlock)
parseContentBlock(rawBlock) ==
    IF ~IsObject(rawBlock)
    THEN IF IsString(rawBlock)
         THEN BlockOk(TextBlock(rawBlock.v))
         ELSE BlockErr(DecodeError(Sprintf(rawBlock), "invalid content block format"))
    ELSE LET blockMap == rawBlock.v IN
         IF ~IsString(blockMap.type)
         THEN IF IsString(blockMap.text)
              THEN BlockOk(TextBlock(blockMap.text.v))
              ELSE BlockErr(DecodeError(Sprintf(rawBlock), "missing content block type"))
         ELSE CASE blockMap.type.v = "text" ->
                     IF IsString(blockMap.text)
                     THEN BlockOk(TextBlock(blockMap.text.v))
                     ELSE BlockErr(DecodeError(Sprintf(rawBlock), "missing text in text block"))
                [] blockMap.type.v = "tool_use" ->
                     BlockOk(ToolUseBlock(StringOr(blockMap.id), StringOr(blockMap.name)))
                [] blockMap.type.v = "tool_result" ->
                     BlockOk(ToolResultBlock(StringOr(blockMap.tool_use_id),
                                             blockMap.content, BoolOr(blockMap.is_error)))
                [] OTHER ->
                     BlockErr(DecodeError(Sprintf(rawBlock), "unknown content block type"))

\* The first element of the array that parseContentBlock rejects (0: none).
FirstRejected(elems) ==
    IF \E i \in 1..Len(elems) : ~parseContentBlock(elems[i]).ok
    THEN CHOOSE i \in 1..Len(elems) :
             /\ ~parseContentBlock(elems[i]).ok
             /\ \A j \in 1..(i - 1) : parseContentBlock(elems[j]).ok
    ELSE 0

\* The loop over an array that leaves out the elements it cannot decode.
parseContentArraySkipping(elems) ==
    LET good == SelectSeq(elems, LAMBDA x : parseContentBlock(x).ok)
    IN  BlocksOk([i \in 1..Len(good) |-> parseContentBlock(good[i]).block])

\* The loop over an array that prepends where the code appends.
parseContentArrayPrepending(elems) ==
    IF FirstRejected(elems) # 0
    THEN BlocksErr(parseContentBlock(elems[FirstRejected(elems)]).err)
    ELSE BlocksOk([i \in 1..Len(elems) |->
                      parseContentBlock(elems[Len(elems) + 1 - i]).block])

\* parseContentBlocks, case []interface{}: one block per element in order;
\* the first element that fails ends the loop with its error and no blocks.
parseContentArray(elems) ==
    IF FirstRejected(elems) # 0
    THEN BlocksErr(parseContentBlock(elems[FirstRejected(elems)]).err)
    ELSE BlocksOk([i \in 1..Len(elems) |-> parseContentBlock(elems[i]).block])

\* parseContentBlocks that makes no block of the empty string.
parseContentBlocksNonEmpty(rawContent) ==
    CASE rawContent.t = "string" ->
           IF rawContent.v = "" THEN BlocksOk(<<>>)
           ELSE BlocksOk(<<TextBlock(rawContent.v)>>)
      [] rawContent.t = "array" -> parseContentArray(rawContent.v)
      [] rawContent.t = "object" ->
           IF parseContentBlock(rawContent).ok
           THEN BlocksOk(<<parseContentBlock(rawContent).block>>)
           ELSE BlocksErr(parseContentBlock(rawContent).err)
      [] OTHER -> BlocksErr(DecodeError(Sprintf(rawContent), "invalid content format"))

\* parseContentBlocks(rawContent)
parseContentBlocks(rawContent) ==
    CASE rawContent.t = "string" -> BlocksOk(<<TextBlock(rawContent.v)>>)
      [] rawContent.t = "array" -> parseContentArray(rawContent.v)
      [] rawContent.t = "object" ->
           IF parseContentBlock(rawContent).ok
           THEN BlocksOk(<<parseContentBlock(rawContent).block>>)
           ELSE BlocksErr(parseContentBlock(rawContent).err)
      [] OTHER -> BlocksErr(DecodeError(Sprintf(rawContent), "invalid content format"))

\* ---------------------------------------------------------------- messages
\* The keys of an output record that the decoder reads, and of its `message`.
Record(type, session_id, parent_tool_use_id, timestamp, subtype, message, total_cost_usd, is_error, result) ==
    JObj([type |-> type, session_id |-> session_id,
          parent_tool_use_id |-> parent_tool_use_id, timestamp |-> timestamp,
          subtype |-> subtype, message |-> message,
          total_cost_usd |-> total_cost_usd, is_error |-> is_error,
          result |-> result])
MessageObj(content) == JObj([content |-> content])

\* The nil map that json.Unmarshal leaves for the line `null`.
NilMap ==
    Record(Absent, Absent, Absent, Absent, Absent, Absent, Absent, Absent,
           Absent).v

\* A Message: *AssistantMessage, *UserMessage, *SystemMessage, *ResultMessage.
Message(variant, subtype, sessionID, createdAt, parent, blocks, cost, isError, result) ==
    [variant |-> variant, Subtype |-> subtype, SessionID |-> sessionID,
     CreatedAt |-> createdAt, ParentToolUseID |-> parent,
     ContentBlocks |-> blocks, TotalCostUSD |-> cost, IsError |-> isError,
     Result |-> result]
NoMessage == Message("nil", "", "", 0, Nil, <<>>, Nil, FALSE, Nil)

\* (Message, error)
MsgOk(m) == [ok |-> TRUE, msg |-> m, err |-> NoDecodeError]
MsgErr(e) == [ok |-> FALSE, msg |-> NoMessage, err |-> e]

\* time.Parse(time.RFC3339, ts): the instant a timestamp text denotes
\* (0: the text is not an RFC 3339 timestamp).
ParseRFC3339(ts) ==
    IF ts = "2024-01-01T00:00:00Z" THEN 1 ELSE 0

\* parseTimestamp that keeps time.Now() whatever the record says.
parseTimestampNowOnly(rawMessage, now) == now

\* parseTimestamp(rawMessage), now being what time.Now() returns
parseTimestamp(rawMessage, now) ==
    IF IsString(rawMessage.timestamp) /\ ParseRFC3339(rawMessage.timestamp.v) # 0
    THEN ParseRFC3339(rawMessage.timestamp.v)
    ELSE now

\* parseCommonFields(rawMessage)
parseCommonFields(rawMessage) ==
    [sessionID |-> StringOr(rawMessage.session_id),
     parentToolUseIDPtr |->
         IF StringOr(rawMessage.parent_tool_use_id) # ""
         THEN Ptr(rawMessage.parent_tool_use_id.v) ELSE Nil]

\* parseMessageContent(rawMessage)
parseMessageContent(rawMessage) ==
    IF IsObject(rawMessage.message) /\ Present(rawMessage.message.v.content)
    THEN parseContentBlocks(rawMessage.message.v.content)
    ELSE BlocksOk(<<>>)

\* parseAssistantMessage and parseUserMessage (variant: "assistant", "user")
parseContentMessage(variant, rawMessage, sessionID, parentToolUseIDPtr, timestamp) ==
    LET content == parseMessageContent(rawMessage) IN
    IF ~content.ok
    THEN MsgErr(content.err)
    ELSE MsgOk(Message(variant, "", sessionID, timestamp, parentToolUseIDPtr,
                       content.blocks, Nil, FALSE, Nil))

\* parseSystemMessage(rawMessage, sessionID, timestamp)
parseSystemMessage(rawMessage, sessionID, timestamp) ==
    MsgOk(Message("system", StringOr(rawMessage.subtype), sessionID, timestamp,
                  Nil, <<>>, Nil, FALSE, Nil))

\* The cost pointer that is set for a cost of zero too.
TotalCostUSDPtrNonNegative(totalCostUSD) ==
    IF totalCostUSD.m >= 0 THEN Ptr(totalCostUSD) ELSE Nil

\* if totalCostUSD > 0 { totalCostUSDPtr = &totalCostUSD }
TotalCostUSDPtr(totalCostUSD) ==
    IF totalCostUSD.m > 0 THEN Ptr(totalCostUSD) ELSE Nil

\* parseResultMessage(rawMessage, sessionID, timestamp)
parseResultMessage(rawMessage, sessionID, timestamp) ==
    MsgOk(Message("result", StringOr(rawMessage.subtype), sessionID, timestamp,
                  Nil, <<>>, TotalCostUSDPtr(Float64Or(rawMessage.total_cost_usd)),
                  BoolOr(rawMessage.is_error),
                  IF Present(rawMessage.result)
                  THEN Ptr(Sprintf(rawMessage.result)) ELSE Nil))

\* parseMessage that takes a record without a string `type` for a record of
\* an unknown type.
parseMessageUntyped(rawMessage, now) ==
    LET messageType == StringOr(rawMessage.type)
        timestamp == parseTimestamp(rawMessage, now)
        common == parseCommonFields(rawMessage)
    IN  CASE messageType = "system" ->
               parseSystemMessage(rawMessage, common.sessionID, timestamp)
          [] messageType \in {"assistant", "user"} ->
               parseContentMessage(messageType, rawMessage, common.sessionID,
                                   common.parentToolUseIDPtr, timestamp)
          [] messageType = "result" ->
               parseResultMessage(rawMessage, common.sessionID, timestamp)
          [] OTHER ->
               MsgOk(Message("system", messageType, common.sessionID, timestamp,
                             Nil, <<>>, Nil, FALSE, Nil))

\* parseMessage(rawMessage), now being what time.Now() returns
parseMessage(rawMessage, now) ==
    IF ~IsString(rawMessage.type)
    THEN MsgErr(DecodeError(Sprintf(JObj(rawMessage)), "missing or invalid message type"))
    ELSE
    LET messageType == rawMessage.type.v
        timestamp == parseTimestamp(rawMessage, now)
        common == parseCommonFields(rawMessage)
    IN  CASE messageType = "system" ->
               parseSystemMessage(rawMessage, common.sessionID, timestamp)
          [] messageType \in {"assistant", "user"} ->
               parseContentMessage(messageType, rawMessage, common.sessionID,
                                   common.parentToolUseIDPtr, timestamp)
          [] messageType = "result" ->
               parseResultMessage(rawMessage, common.sessionID, timestamp)
          [] OTHER ->
               MsgOk(Message("system", messageType, common.sessionID, timestamp,
                             Nil, <<>>, Nil, FALSE, Nil))

\* A line that is not JSON text.
NotJSON == [t |-> "invalid", v |-> "not json"]

\* json.Unmarshal([]byte(line), &rawMessage) with rawMessage a nil
\* map[string]interface{}: an object fills the map, `null` leaves it nil
\* without an error, everything else is an error.
Unmarshal(l) ==
    CASE l.t = "object" -> [ok |-> TRUE, rawMessage |-> l.v]
      [] l.t = "null" -> [ok |-> TRUE, rawMessage |-> NilMap]
      [] OTHER -> [ok |-> FALSE, rawMessage |-> NilMap]

\* The decoding of one non-empty line in streamMessages and in readMessages.
decodeLine(l, now) ==
    IF ~Unmarshal(l).ok
    THEN MsgErr(DecodeError(RawLine(l), "json.Unmarshal"))
    ELSE parseMessage(Unmarshal(l).rawMessage, now)

\* ------------------------------------------------------ options and command
\* Options, with the fields that findCLIExecutable, buildCommandArgs and
\* readOutput read; a pointer field is Nil or Ptr(value), a slice or map
\* field a sequence.
\* OutputFormatText, OutputFormatJSON, OutputFormatStreamJSON
OutputFormatText == "text"
OutputFormatJSON == "json"
OutputFormatStreamJSON == "stream-json"

\* fmt.Sprintf("%d", n), strings.Join(list, ",") and json.Marshal of
\* {"mcpServers": servers}, for the values the options below hold.
FormatInt(n) == IF n = 3 THEN "3" ELSE "0"
StringsJoin(list) ==
    CASE list = <<"Read">> -> "Read"
      [] list = <<"Read", "Write">> -> "Read,Write"
      [] list = <<"Bash">> -> "Bash"
      [] OTHER -> ""
MarshalMCPServers(servers) == "{\"mcpServers\":{\"fs\":{\"transport\":[\"stdio\"]}}}"

\* *p != "" for a *string, *p for a *bool
NonEmpty(p) == p.t = "ptr" /\ p.v # ""
IsTrue(p) == p.t = "ptr" /\ p.v

\* CLINotFoundError{Path: path}
CLINotFoundErrorAt(path) == Err("CLINotFoundError", path, 0, "", 0)

\* Options{}, what a nil options pointer is replaced with
NoOptions ==
    [Executable |-> Nil, OutputFormat |-> Nil, Verbose |-> Nil,
     SystemPrompt |-> Nil, AppendSystemPrompt |-> Nil, MaxTurns |-> Nil,
     Model |-> Nil, AllowedTools |-> <<>>, DisallowedTools |-> <<>>,
     Resume |-> Nil, Continue |-> Nil, MCPConfig |-> Nil, MCPServers |-> <<>>,
     PermissionMode |-> Nil, PermissionPromptTool |-> Nil,
     DangerouslySkipPermissions |-> Nil, Debug |-> Nil, InputFormat |-> Nil,
     AddDir |-> <<>>]

\* What the machine offers: the files that exist, whether exec.LookPath
\* finds "claude", and whether npm is installed with claude-code in its
\* global root.
Machine(files, onPath, npmGlobal) ==
    [files |-> files, onPath |-> onPath, npmGlobal |-> npmGlobal]
NpmGlobalClaude == "/usr/lib/node_modules/@anthropic-ai/claude-code/bin/claude"
PathClaude == "/usr/local/bin/claude"

\* findCLIExecutable that looks a missing custom path up on PATH.
findCLIExecutableFallback(customPath, machine) ==
    IF NonEmpty(customPath) /\ customPath.v \in machine.files
    THEN [ok |-> TRUE, path |-> customPath.v, err |-> NoErr]
    ELSE IF machine.onPath
    THEN [ok |-> TRUE, path |-> PathClaude, err |-> NoErr]
    ELSE [ok |-> FALSE, path |-> "", err |-> CLINotFoundError]

\* findCLIExecutable(customPath)
findCLIExecutable(customPath, machine) ==
    IF NonEmpty(customPath)
    THEN IF customPath.v \in machine.files
         THEN [ok |-> TRUE, path |-> customPath.v, err |-> NoErr]
         ELSE [ok |-> FALSE, path |-> "", err |-> CLINotFoundErrorAt(customPath.v)]
    ELSE IF machine.onPath
    THEN [ok |-> TRUE, path |-> PathClaude, err |-> NoErr]
    ELSE IF machine.npmGlobal
    THEN [ok |-> TRUE, path |-> NpmGlobalClaude, err |-> NoErr]
    ELSE [ok |-> FALSE, path |-> "", err |-> CLINotFoundError]

\* The output format in force: the caller's, or stream-json.
EffectiveFormat(options) ==
    IF options.OutputFormat.t = "ptr" THEN options.OutputFormat.v
    ELSE OutputFormatStreamJSON

addPromptArgs(args, options) ==
    args
    \o (IF NonEmpty(options.SystemPrompt)
        THEN <<"--system-prompt", options.SystemPrompt.v>> ELSE <<>>)
    \o (IF NonEmpty(options.AppendSystemPrompt)
        THEN <<"--append-system-prompt", options.AppendSystemPrompt.v>> ELSE <<>>)
    \o (IF options.MaxTurns.t = "ptr"
        THEN <<"--max-turns", FormatInt(options.MaxTurns.v)>> ELSE <<>>)

addModelAndToolArgs(args, options) ==
    args
    \o (IF NonEmpty(options.Model) THEN <<"--model", options.Model.v>> ELSE <<>>)
    \o (IF Len(options.AllowedTools) > 0
        THEN <<"--allowedTools", StringsJoin(options.AllowedTools)>> ELSE <<>>)
    \o (IF Len(options.DisallowedTools) > 0
        THEN <<"--disallowedTools", StringsJoin(options.DisallowedTools)>> ELSE <<>>)

addSessionArgs(args, options) ==
    args
    \o (IF NonEmpty(options.Resume) THEN <<"--resume", options.Resume.v>> ELSE <<>>)
    \o (IF IsTrue(options.Continue) THEN <<"--continue">> ELSE <<>>)

\* addOutputArgs that adds --verbose for Verbose and again for stream-json.
addOutputArgsVerboseTwice(args, options) ==
    args
    \o <<"--output-format", EffectiveFormat(options)>>
    \o (IF IsTrue(options.Verbose) THEN <<"--verbose">> ELSE <<>>)
    \o (IF EffectiveFormat(options) = OutputFormatStreamJSON
        THEN <<"--verbose">> ELSE <<>>)

\* addOutputArgs that always asks for stream-json.
addOutputArgsStreamOnly(args, options) ==
    args
    \o <<"--output-format", OutputFormatStreamJSON>>
    \o (IF IsTrue(options.Verbose) THEN <<"--verbose">>
        ELSE IF EffectiveFormat(options) = OutputFormatStreamJSON
        THEN <<"--verbose">> ELSE <<>>)

addOutputArgs(args, options) ==
    args
    \o <<"--output-format", EffectiveFormat(options)>>
    \o (IF IsTrue(options.Verbose) THEN <<"--verbose">>
        ELSE IF EffectiveFormat(options) = OutputFormatStreamJSON
        THEN <<"--verbose">> ELSE <<>>)

addMCPArgs(args, options) ==
    args
    \o (IF NonEmpty(options.MCPConfig)
        THEN <<"--mcp-config", options.MCPConfig.v>> ELSE <<>>)
    \o (IF Len(options.MCPServers) > 0
        THEN <<"--mcp-config", MarshalMCPServers(options.MCPServers)>> ELSE <<>>)

addPermissionArgs(args, options) ==
    args
    \o (IF NonEmpty(options.PermissionMode)
        THEN <<"--permission-mode", options.PermissionMode.v>> ELSE <<>>)
    \o (IF NonEmpty(options.PermissionPromptTool)
        THEN <<"--permission-prompt-tool", options.PermissionPromptTool.v>> ELSE <<>>)
    \o (IF IsTrue(options.DangerouslySkipPermissions)
        THEN <<"--dangerously-skip-permissions">> ELSE <<>>)

\* for _, dir := range options.AddDir { args = append(args, "--add-dir", dir) }
AddDirArgs(dirs) ==
    [k \in 1..(2 * Len(dirs)) |->
        IF k % 2 = 1 THEN "--add-dir" ELSE dirs[k \div 2]]

addMiscArgs(args, options) ==
    args
    \o (IF IsTrue(options.Debug) THEN <<"--debug">> ELSE <<>>)
    \o (IF NonEmpty(options.InputFormat)
        THEN <<"--input-format", options.InputFormat.v>> ELSE <<>>)
    \o AddDirArgs(options.AddDir)

\* buildCommandArgs(options)
buildCommandArgs(options) ==
    addMiscArgs(addPermissionArgs(addMCPArgs(addOutputArgs(addSessionArgs(
        addModelAndToolArgs(addPromptArgs(<<"--print">>, options), options),
        options), options), options), options), options)

\* prepareStreamOptions(options)
prepareStreamOptions(options) ==
    [options EXCEPT !.OutputFormat = Ptr(OutputFormatStreamJSON)]

\* The caller's Options had prepareStreamOptions worked on the struct the
\* caller's pointer refers to.
OptionsInPlace(options) == prepareStreamOptions(options)

\* The caller's Options after prepareStreamOptions(options): streamOptions is
\* a copy of the struct (streamOptions := *options) and the format is
\* assigned to the copy's field, with a pointer to a new variable.
OptionsAfterPrepare(options) == options

\* exec.CommandContext(ctx, cliPath, args...), and no command
Command(cliPath, args) == [path |-> cliPath, args |-> args]
NoCmd == Command("", <<>>)

\* The bytes of an output line of each kind, its newline at the end.
LineBytes(kind) ==
    CASE kind = "ok" -> <<"{\"type\":\"system\"}", "\n">>
      [] kind = "empty" -> <<"\n">>
      [] kind = "badmsg" -> <<"{}", "\n">>
      [] kind = "toolong" -> <<"{\"type\":\"system\", ...", "\n">>
      [] OTHER -> <<"not json", "\n">>

\* io.ReadAll that reads as a line scanner does and leaves empty lines out.
RECURSIVE ReadAllNonEmpty(_)
ReadAllNonEmpty(lines) ==
    IF lines = <<>> THEN <<>>
    ELSE (IF Head(lines) = "empty" THEN <<>> ELSE LineBytes(Head(lines)))
         \o ReadAllNonEmpty(Tail(lines))

\* io.ReadAll(reader) at the end of the output: all its bytes, in order.
RECURSIVE ReadAll(_)
ReadAll(lines) ==
    IF lines = <<>> THEN <<>>
    ELSE LineBytes(Head(lines)) \o ReadAll(Tail(lines))

\* readTextOutput(reader), the read having succeeded
readTextOutput(lines, now) ==
    <<Message("result", "text_output", "text_output_session", now, Nil, <<>>,
              Nil, FALSE, Ptr(ReadAll(lines)))>>

\* ------------------------------------------------- methods of a message
\* MessageTypeAssistant, MessageTypeUser, MessageTypeSystem, MessageTypeResult
MessageTypeAssistant == "assistant"
MessageTypeUser == "user"
MessageTypeSystem == "system"
MessageTypeResult == "result"

\* (m).Type(), by the struct of m
Type(m) ==
    CASE m.variant = "assistant" -> MessageTypeAssistant
      [] m.variant = "user" -> MessageTypeUser
      [] m.variant = "system" -> MessageTypeSystem
      [] m.variant = "result" -> MessageTypeResult

\* Content() that returns the content blocks the message holds, for every
\* struct.
ContentStored(m) == m.ContentBlocks

\* (m).Content()
Content(m) ==
    CASE m.variant \in {"assistant", "user"} -> m.ContentBlocks
      [] m.variant = "system" -> <<>>
      [] m.variant = "result" ->
            IF m.Result # Nil THEN <<TextBlock(m.Result.v)>> ELSE <<>>

\* (m).Timestamp()
Timestamp(m) == m.CreatedAt

\* The caller before it has called the methods.
NotSeen == [done |-> FALSE, type |-> "", content |-> <<>>, timestamp |-> 0]

\* The readings of the clock.
NowTimes == {2, 3}

\* The decoder before it has decoded the line.
NotDecoded == [done |-> FALSE, now |-> 0, res |-> MsgErr(NoDecodeError)]

\* ------------------------------------------------------------------- Init
\* The query before its first step.
ProcInit ==
    /\ api \in APIs
    /\ waitsEOF \in BOOLEAN
    /\ ctxDone = FALSE
    /\ watchFired = FALSE
    /\ child = "none"
    /\ exitCode = 0
    /\ out = <<>>
    /\ errPipe = ""
    /\ stdin = "none"
    /\ promptWrites = 0
    /\ waited = FALSE
    /\ pc = "setup"
    /\ rd = 0
    /\ cur = 0
    /\ messages = <<>>
    /\ ret = [returned |-> FALSE, msgs |-> <<>>, err |-> NoErr]
    /\ spc = "none"
    /\ msgChan = <<>>
    /\ msgClosed = FALSE
    /\ errChan = <<>>
    /\ errClosed = FALSE
    /\ sent = <<>>
    /\ errSent = <<>>
    /\ received = <<>>
    /\ errsReceived = <<>>
    /\ cancelAt = -1
    /\ sawClosed = -1
    /\ stderrRead = FALSE

\* ------------------------------------------------------------- channels
\* Mutant of ChanSend: the value is put at the head of the buffer.
ChanSendFront(ch, v) == <<v>> \o ch

\* ch <- v on a buffered channel with room: the value joins the buffer's tail.
ChanSend(ch, v) == Append(ch, v)

\* Mutant of ChanAfterClose: closing drops what is buffered.
ChanAfterCloseDrop(ch) == <<>>

\* close(ch): the buffer is kept, only the closed mark is set.
ChanAfterClose(ch) == ch

\* errorChan <- e. The send blocks while the buffer is full.
ErrSend(e) ==
    /\ Len(errChan) < ErrChanCap
    /\ errChan' = ChanSend(errChan, e)
    /\ errSent' = Append(errSent, e)

\* messageChan <- Msg(i) going through.
MsgSend(i) ==
    /\ msgChan' = ChanSend(msgChan, Msg(i))
    /\ sent' = Append(sent, Msg(i))

\* ------------------------------------------------------ library behaviour
\* io.ReadAll(stderr) and the fallback of the callers: once Wait has closed
\* the parent's end of the pipe the read fails.
StderrText(closedByWait, pipe) ==
    IF closedByWait THEN "failed to read stderr" ELSE pipe

\* Mutant of WaitErrKind: the watcher's error is reported although it never
\* signalled the process.
WaitErrKindWatcherAlways ==
    IF child = "killed" \/ exitCode # 0 THEN "exit" ELSE "other"

\* The error cmd.Wait() returns for a terminated child.
\*   "exit": *exec.ExitError; "other": another error; "nil": success
WaitErrKind ==
    IF child = "killed" \/ exitCode # 0 THEN "exit"
    ELSE IF watchFired THEN "other"
    ELSE "nil"

\* Where QueryStream's goroutine goes when it returns: the deferred closes.
StreamReturn == "closeErr"

\* Mutant of StreamFailed: the result of streamMessages is ignored and the
\* read loop is entered again.
StreamFailedIgnored == "scan"

\* Where QueryStream's goroutine goes when streamMessages returned false.
StreamFailed == StreamReturn

\* ------------------------------------------------------------ QueryStream
\* prepareStreamOptions, setupStreamCommand and createStreamPipes.
S_Setup ==
    /\ api = "QueryStream" /\ pc = "setup"
    /\ LET streamOptions == prepareStreamOptions(opts)
           cli == findCLIExecutable(streamOptions.Executable, host)
       IN IF cli.ok
          THEN /\ cmd' = Command(cli.path, buildCommandArgs(streamOptions))
               /\ \E pipesOK \in BOOLEAN :
                    IF pipesOK
                    THEN pc' = "start" /\ UNCHANGED <<errChan, errSent>>
                    ELSE /\ ErrSend(CLIConnectionError("failed to create stdin pipe"))
                         /\ pc' = StreamReturn
          ELSE /\ ErrSend(cli.err)
               /\ pc' = StreamReturn
               /\ UNCHANGED cmd
    /\ opts' = OptionsAfterPrepare(opts)
    /\ UNCHANGED <<decVars, obsVars, host, strategy, api, waitsEOF, ctxDone, watchFired, childVars, stdin,
                   promptWrites, waited, rd, cur, queryVars, spc, msgChan,
                   msgClosed, errClosed, sent, callerVars>>

\* cmd.Start(), then go sendPrompt(stdin, prompt).
S_Start ==
    /\ api = "QueryStream" /\ pc = "start"
    /\ \E startOK \in BOOLEAN :
         IF startOK /\ ~ctxDone
         THEN /\ child' = "running"
              /\ stdin' = "open"
              /\ spc' = "ready"
              /\ pc' = "scan"
              /\ UNCHANGED <<errChan, errSent>>
         ELSE /\ ErrSend(CLIConnectionError("failed to start Claude CLI"))
              /\ pc' = StreamReturn
              /\ UNCHANGED <<child, stdin, spc>>
    /\ UNCHANGED <<decVars, obsVars, cmdVars, api, waitsEOF, ctxDone, watchFired, exitCode, out, errPipe,
                   promptWrites, waited, rd, cur, queryVars, msgChan,
                   msgClosed, errClosed, sent, callerVars>>

\* sendPrompt: one Write (its error dropped), then the deferred Close.
SendPrompt ==
    /\ spc = "ready"
    /\ spc' = "done"
    /\ promptWrites' = IF stdin = "open" /\ child = "running"
                       THEN promptWrites + 1 ELSE promptWrites
    /\ stdin' = "closed"
    /\ UNCHANGED <<decVars, obsVars, cmdVars, api, waitsEOF, ctxDone, watchFired, childVars, waited, pc,
                   rd, cur, queryVars, chanVars, callerVars>>

\* The skip that takes a well-formed line for an empty one.
SkippedWithOk(kind) == kind \in {"empty", "ok"}

\* if line == "" { continue }
Skipped(kind) == kind = "empty"

\* The kinds of line that end the read loop with an error.
FailingKinds == {"badjson", "badmsg", "toolong"}

\* The error streamMessages sends for line i of a failing kind: the decode
\* errors of json.Unmarshal and parseMessage, or the error of scanner.Err().
StreamLineError(kind, i) ==
    IF kind = "toolong"
    THEN CLIConnectionError("error reading CLI output")
    ELSE CLIJSONDecodeError(i)

\* A buffer that takes one message more than make(chan Message, 10) allows.
ChanHasRoomOneMore(ch, cap) == Len(ch) <= cap

\* A send on a buffered channel goes through when the buffer has room.
ChanHasRoom(ch, cap) == Len(ch) < cap

\* The outcome of the select of streamMessages for the message of line i,
\* evaluated when it is reached.
SelectSend(i) ==
    /\ ChanHasRoom(msgChan, MsgChanCap)
    /\ MsgSend(i)
    /\ pc' = "scan" /\ cur' = 0
    /\ UNCHANGED <<errChan, errSent>>

SelectDone ==
    /\ ctxDone
    /\ ErrSend(CtxErr)
    /\ pc' = StreamFailed /\ cur' = 0
    /\ UNCHANGED <<msgChan, sent>>

SelectBlock(i) ==
    /\ ~ChanHasRoom(msgChan, MsgChanCap) /\ ~ctxDone
    /\ pc' = "parked" /\ cur' = i
    /\ UNCHANGED <<msgChan, sent, errChan, errSent>>

\* One turn of the loop of streamMessages: scanner.Scan(), the decode of the
\* line and the select; or the end of the loop.
S_Scan ==
    /\ api = "QueryStream" /\ pc = "scan"
    /\ \/ /\ LineReady
          /\ rd' = rd + 1
          /\ LET i == rd + 1
                 kind == out[i]
             IN CASE Skipped(kind) ->
                       /\ pc' = "scan"
                       /\ UNCHANGED <<cur, msgChan, sent, errChan, errSent>>
                  [] kind \in FailingKinds ->
                       /\ ErrSend(StreamLineError(kind, i))
                       /\ pc' = StreamFailed
                       /\ UNCHANGED <<cur, msgChan, sent>>
                  [] OTHER ->
                       SelectSend(i) \/ SelectDone \/ SelectBlock(i)
       \/ /\ AtEOF
          /\ pc' = "wait"
          /\ UNCHANGED <<rd, cur, msgChan, sent, errChan, errSent>>
    /\ strategy' = "lines"
    /\ UNCHANGED <<decVars, obsVars, opts, host, cmd, api, waitsEOF, ctxDone,
                   watchFired, childVars, stdin, promptWrites, waited,
                   queryVars, spc, msgClosed, errClosed, callerVars>>

\* The select was left through <-ctx.Done(): errorChan <- ctx.Err(); return false.
S_Abort ==
    /\ api = "QueryStream" /\ pc = "aborting"
    /\ ErrSend(CtxErr)
    /\ pc' = StreamFailed /\ cur' = 0
    /\ UNCHANGED <<decVars, obsVars, cmdVars, api, waitsEOF, ctxDone, watchFired, childVars, stdin,
                   promptWrites, waited, rd, queryVars, spc, msgChan,
                   msgClosed, errClosed, sent, callerVars>>

\* waitForStreamCommand: cmd.Wait(), and on an error the read of stderr.
S_Wait ==
    /\ api = "QueryStream" /\ pc = "wait"
    /\ Terminated
    /\ waited' = TRUE
    /\ stdin' = "closed"
    /\ CASE WaitErrKind = "nil" ->
              UNCHANGED <<errChan, errSent>>
         [] WaitErrKind = "exit" ->
              ErrSend(ProcessError(ChildExitCode, StderrText(TRUE, errPipe)))
         [] OTHER ->
              ErrSend(CLIConnectionError("CLI process failed"))
    /\ stderrRead' = (stderrRead \/ WaitErrKind # "nil")
    /\ pc' = StreamReturn
    /\ UNCHANGED <<decVars, sawClosed, cmdVars, api, waitsEOF, ctxDone, watchFired, childVars,
                   promptWrites, rd, cur, queryVars, spc, msgChan, msgClosed,
                   errClosed, sent, callerVars>>

\* defer close(errorChan): registered last, run first.
S_CloseErr ==
    /\ api = "QueryStream" /\ pc = "closeErr"
    /\ errClosed' = TRUE
    /\ errChan' = ChanAfterClose(errChan)
    /\ pc' = "closeMsg"
    /\ UNCHANGED <<decVars, obsVars, cmdVars, api, waitsEOF, ctxDone, watchFired, childVars, stdin,
                   promptWrites, waited, rd, cur, queryVars, spc, msgChan,
                   msgClosed, sent, errSent, callerVars>>

\* defer close(messageChan)
S_CloseMsg ==
    /\ api = "QueryStream" /\ pc = "closeMsg"
    /\ msgClosed' = TRUE
    /\ msgChan' = ChanAfterClose(msgChan)
    /\ pc' = "done"
    /\ UNCHANGED <<decVars, obsVars, cmdVars, api, waitsEOF, ctxDone, watchFired, childVars, stdin,
                   promptWrites, waited, rd, cur, queryVars, spc, errChan,
                   errClosed, sent, errSent, callerVars>>

\* ------------------------------------------------------------------ Query
\* What Query returns.
Return(msgs, e) == [returned |-> TRUE, msgs |-> msgs, err |-> e]

\* setupCommand and createPipes.
Q_Setup ==
    /\ api = "Query" /\ pc = "setup"
    /\ LET cli == findCLIExecutable(opts.Executable, host)
       IN IF cli.ok
          THEN /\ cmd' = Command(cli.path, buildCommandArgs(opts))
               /\ \E pipesOK \in BOOLEAN :
                    IF pipesOK
                    THEN pc' = "start" /\ UNCHANGED ret
                    ELSE /\ ret' = Return(<<>>,
                                   CLIConnectionError("failed to create stdin pipe"))
                         /\ pc' = "done"
          ELSE /\ ret' = Return(<<>>, cli.err)
               /\ pc' = "done"
               /\ UNCHANGED cmd
    /\ UNCHANGED <<decVars, obsVars, opts, host, strategy, api, waitsEOF,
                   ctxDone, watchFired, childVars, stdin, promptWrites,
                   waited, rd, cur, messages, spc, chanVars, callerVars>>

\* cmd.Start()
Q_Start ==
    /\ api = "Query" /\ pc = "start"
    /\ \E startOK \in BOOLEAN :
         IF startOK /\ ~ctxDone
         THEN /\ child' = "running"
              /\ stdin' = "open"
              /\ pc' = "write"
              /\ UNCHANGED ret
         ELSE /\ ret' = Return(<<>>, CLIConnectionError("failed to start Claude CLI"))
              /\ pc' = "done"
              /\ UNCHANGED <<child, stdin>>
    /\ UNCHANGED <<decVars, obsVars, cmdVars, api, waitsEOF, ctxDone, watchFired, exitCode, out, errPipe,
                   promptWrites, waited, rd, cur, messages, spc, chanVars,
                   callerVars>>

\* stdin.Write([]byte(prompt)); the Close is deferred to the return of Query.
\* The write fails when the child is gone.
Q_Write ==
    /\ api = "Query" /\ pc = "write"
    /\ IF child = "running"
       THEN /\ promptWrites' = promptWrites + 1
            /\ pc' = "scan"
            /\ UNCHANGED ret
       ELSE /\ ret' = Return(<<>>, CLIConnectionError("failed to write prompt to stdin"))
            /\ pc' = "done"
            /\ UNCHANGED promptWrites
    /\ UNCHANGED <<decVars, obsVars, cmdVars, api, waitsEOF, ctxDone, watchFired, childVars, stdin,
                   waited, rd, cur, messages, spc, chanVars, callerVars>>

\* readOutput with the text format: readTextOutput reads the output to its
\* end, which comes when the child is gone.
Q_ReadText ==
    /\ api = "Query" /\ pc = "scan"
    /\ EffectiveFormat(opts) = OutputFormatText
    /\ Terminated
    /\ \E now \in NowTimes : messages' = readTextOutput(out, now)
    /\ rd' = Len(out)
    /\ strategy' = "text"
    /\ pc' = "wait"
    /\ UNCHANGED <<decVars, obsVars, opts, host, cmd, api, waitsEOF, ctxDone,
                   watchFired, childVars, stdin, promptWrites, waited, cur,
                   ret, spc, chanVars, callerVars>>

\* One turn of the loop of readMessages (through readOutput with another
\* format), or its end. A failure leaves readMessages with a nil list and an
\* error.
Q_Scan ==
    /\ api = "Query" /\ pc = "scan"
    /\ EffectiveFormat(opts) # OutputFormatText
    /\ \/ /\ LineReady
          /\ rd' = rd + 1
          /\ LET i == rd + 1
                 kind == out[i]
             IN CASE Skipped(kind) ->
                       pc' = "scan" /\ UNCHANGED messages
                  [] kind = "ok" ->
                       pc' = "scan" /\ messages' = Append(messages, Msg(i))
                  [] OTHER ->
                       pc' = "readerr" /\ messages' = <<>>
       \/ /\ AtEOF
          /\ pc' = "wait"
          /\ UNCHANGED <<rd, messages>>
    /\ strategy' = "lines"
    /\ UNCHANGED <<decVars, obsVars, opts, host, cmd, api, waitsEOF, ctxDone,
                   watchFired, childVars, stdin, promptWrites, waited, cur,
                   ret, spc, chanVars, callerVars>>

\* return nil, handleReadError(err, stderr): the error of readOutput is
\* dropped, stderr is read to its end, and the deferred stdin.Close() runs.
Q_HandleReadError ==
    /\ api = "Query" /\ pc = "readerr"
    /\ Terminated
    /\ ret' = Return(<<>>, ProcessError(ReadErrorExitCode, StderrText(waited, errPipe)))
    /\ stderrRead' = TRUE
    /\ stdin' = "closed"
    /\ pc' = "done"
    /\ UNCHANGED <<decVars, sawClosed, cmdVars, api, waitsEOF, ctxDone,
                   watchFired, childVars, promptWrites, waited, rd, cur,
                   messages, spc, chanVars, callerVars>>

\* return messages, waitForCommand(cmd, stderr), then the deferred stdin.Close().
Q_Wait ==
    /\ api = "Query" /\ pc = "wait"
    /\ Terminated
    /\ waited' = TRUE
    /\ stdin' = "closed"
    /\ ret' = Return(messages,
                CASE WaitErrKind = "nil" -> NoErr
                  [] WaitErrKind = "exit" ->
                       ProcessError(ChildExitCode, StderrText(TRUE, errPipe))
                  [] OTHER -> CLIConnectionError("CLI process failed"))
    /\ stderrRead' = (stderrRead \/ WaitErrKind # "nil")
    /\ pc' = "done"
    /\ UNCHANGED <<decVars, sawClosed, cmdVars, api, waitsEOF, ctxDone, watchFired, childVars,
                   promptWrites, rd, cur, messages, spc, chanVars, callerVars>>

\* ------------------------------------------------------------- the child
WellFormed(lines) == \A k \in 1..Len(lines) : lines[k] = "ok"

\* The outputs explored (see the bounds).
CanWrite(kind) ==
    \/ Len(out) < MaxLines
    \/ kind = "ok" /\ WellFormed(out) /\ Len(out) < MsgChanCap + MaxExtra

\* Diagnostic text that fills the stderr pipe: the child's write of it
\* returns only when the parent reads the pipe.
PipeFull == "more diagnostic text than the pipe holds"

\* The parent is reading stderr while the child runs: handleReadError is in
\* its io.ReadAll. (waitForCommand and waitForStreamCommand read after Wait.)
StderrDrained == api = "Query" /\ pc = "readerr"

\* The child has what it needs to go on: its input ended, if it waits for
\* that, and it is not blocked in a write to stderr.
ChildGo ==
    /\ child = "running"
    /\ waitsEOF => stdin = "closed"
    /\ errPipe = PipeFull => StderrDrained

\* The child writes diagnostic text until the pipe is full.
ChildFillStderr ==
    /\ ChildGo /\ errPipe = ""
    /\ errPipe' = PipeFull
    /\ UNCHANGED <<decVars, obsVars, cmdVars, api, waitsEOF, ctxDone,
                   watchFired, child, exitCode, out, stdin, promptWrites,
                   waited, pc, rd, cur, queryVars, spc, chanVars, callerVars>>

ChildWrite ==
    /\ ChildGo
    /\ \E kind \in LineKinds :
         /\ CanWrite(kind)
         /\ out' = Append(out, kind)
    /\ UNCHANGED <<decVars, obsVars, cmdVars, api, waitsEOF, ctxDone, watchFired, child, exitCode,
                   errPipe, stdin, promptWrites, waited, pc, rd, cur,
                   queryVars, spc, chanVars, callerVars>>

\* The child ends on its own, its diagnostic text written.
ChildExit ==
    /\ ChildGo
    /\ \E code \in 0..MaxExit, d \in Diags :
         /\ exitCode' = code
         /\ errPipe' = IF errPipe = PipeFull THEN PipeFull ELSE d
    /\ child' = "exited"
    /\ UNCHANGED <<decVars, obsVars, cmdVars, api, waitsEOF, ctxDone, watchFired, out, stdin,
                   promptWrites, waited, pc, rd, cur, queryVars, spc,
                   chanVars, callerVars>>

\* The watcher goroutine that exec.CommandContext starts with the process:
\* once the context is done it kills the process, unless Wait has returned.
CtxWatch ==
    /\ ctxDone /\ ~watchFired /\ ~waited
    /\ child \in {"running", "exited"}
    /\ watchFired' = TRUE
    /\ child' = IF child = "running" THEN "killed" ELSE child
    /\ UNCHANGED <<decVars, obsVars, cmdVars, api, waitsEOF, ctxDone, exitCode, out, errPipe, stdin,
                   promptWrites, waited, pc, rd, cur, queryVars, spc,
                   chanVars, callerVars>>

\* ------------------------------------------------------------ the caller
\* v := <-ch takes the oldest buffered value.
ChanHead(ch) == Head(ch)

\* <-messageChan. A sender blocked on the full buffer hands its value over.
Recv ==
    /\ Len(msgChan) > 0
    /\ received' = Append(received, ChanHead(msgChan))
    /\ IF pc = "parked"
       THEN /\ msgChan' = ChanSend(Tail(msgChan), Msg(cur))
            /\ sent' = Append(sent, Msg(cur))
            /\ pc' = "scan" /\ cur' = 0
       ELSE /\ msgChan' = Tail(msgChan)
            /\ UNCHANGED <<sent, pc, cur>>
    /\ UNCHANGED <<decVars, obsVars, cmdVars, api, waitsEOF, ctxDone, watchFired, childVars, stdin,
                   promptWrites, waited, rd, queryVars, spc, msgClosed,
                   errChan, errClosed, errSent, errsReceived, cancelAt>>

\* The caller finds messageChan closed and empty: message, ok :=
\* <-messageChan with ok false, which the README's loop takes for the end.
SeeClosed ==
    /\ sawClosed = -1
    /\ msgClosed /\ msgChan = <<>>
    /\ sawClosed' = Len(errsReceived)
    /\ UNCHANGED <<decVars, stderrRead, cmdVars, procOnly>>

\* <-errorChan
RecvErr ==
    /\ Len(errChan) > 0
    /\ errsReceived' = Append(errsReceived, ChanHead(errChan))
    /\ errChan' = Tail(errChan)
    /\ UNCHANGED <<decVars, obsVars, cmdVars, api, waitsEOF, ctxDone, watchFired, childVars, stdin,
                   promptWrites, waited, pc, rd, cur, queryVars, spc, msgChan,
                   msgClosed, errClosed, sent, errSent, received, cancelAt>>

\* Mutant of WakeOnCancel: the select has no <-ctx.Done() case, the send
\* stays blocked.
WakeOnCancelNever == "parked"

\* Where a goroutine blocked in the select of streamMessages goes when the
\* context is cancelled.
WakeOnCancel == "aborting"

\* The caller cancels the context while the query runs.
Cancel ==
    /\ ~ctxDone /\ pc # "done"
    /\ ctxDone' = TRUE
    /\ cancelAt' = Len(received)
    /\ pc' = IF pc = "parked" THEN WakeOnCancel ELSE pc
    /\ UNCHANGED <<decVars, obsVars, cmdVars, api, waitsEOF, watchFired, childVars, stdin, promptWrites,
                   waited, rd, cur, queryVars, spc, chanVars, received,
                   errsReceived>>

\* A query: the decoder is modelled by the kinds of the lines.
\* The caller passes no options, and claude is on the PATH or nowhere.
Init ==
    /\ ProcInit
    /\ rawLine = NotJSON
    /\ dec = NotDecoded
    /\ again = NotDecoded
    /\ seen = NotSeen
    /\ opts = NoOptions
    /\ host \in {Machine({}, TRUE, FALSE), Machine({}, FALSE, FALSE)}
    /\ cmd = NoCmd
    /\ strategy = "none"

\* ------------------------------------------------------------------ Next
Next ==
    \/ S_Setup \/ S_Start \/ SendPrompt \/ S_Scan \/ S_Abort \/ S_Wait
    \/ S_CloseErr \/ S_CloseMsg
    \/ Q_Setup \/ Q_Start \/ Q_Write \/ Q_Scan \/ Q_HandleReadError \/ Q_Wait
    \/ ChildWrite \/ ChildFillStderr \/ ChildExit \/ CtxWatch
    \/ Recv \/ RecvErr \/ SeeClosed \/ Cancel

Spec == Init /\ [][Next]_vars

\* ================================================= the stream, scheduled
\* QueryStream with the scheduling of its goroutines: the Go scheduler runs
\* a goroutine that can take a step, so the orchestrating goroutine, the
\* sendPrompt goroutine and the watcher of os/exec each go on while they
\* can. The child and the caller are under no such obligation. Of the
\* caller only the receives of messages and the cancellation are kept, and
\* the child is the one that may write and exit at any time: what a child
\* does that waits for the end of its input, it does too.
LiveInit == Init /\ api = "QueryStream" /\ waitsEOF = FALSE

\* The steps of the goroutine QueryStream starts.
StreamStep ==
    \/ S_Setup \/ S_Start \/ S_Scan \/ S_Abort \/ S_Wait
    \/ S_CloseErr \/ S_CloseMsg

LiveNext ==
    \/ StreamStep \/ SendPrompt \/ CtxWatch
    \/ ChildWrite \/ ChildFillStderr \/ ChildExit
    \/ Recv \/ Cancel

Fairness ==
    /\ WF_vars(StreamStep)
    /\ WF_vars(SendPrompt)
    /\ WF_vars(CtxWatch)

LiveSpec == LiveInit /\ [][LiveNext]_vars /\ Fairness

\* ====================================== the options and the command line
\* A query under the options and on the machines below. The child writes its
\* whole output and ends with status 0 in one step, and the context is not
\* cancelled.
MaxOut == 2

OptionsSet ==
    [NoOptions EXCEPT
        !.SystemPrompt = Ptr("be brief"), !.AppendSystemPrompt = Ptr("and kind"),
        !.MaxTurns = Ptr(3), !.Model = Ptr("sonnet"),
        !.AllowedTools = <<"Read", "Write">>, !.DisallowedTools = <<"Bash">>,
        !.Resume = Ptr("s1"), !.Continue = Ptr(TRUE),
        !.MCPConfig = Ptr("mcp.json"), !.MCPServers = <<"fs">>,
        !.PermissionMode = Ptr("default"),
        !.PermissionPromptTool = Ptr("mcp__approve"),
        !.DangerouslySkipPermissions = Ptr(TRUE), !.Debug = Ptr(TRUE),
        !.InputFormat = Ptr("text"), !.AddDir = <<"/a", "/b">>]

OptionsEmpty ==
    [NoOptions EXCEPT
        !.SystemPrompt = Ptr(""), !.AppendSystemPrompt = Ptr(""),
        !.MaxTurns = Ptr(0), !.Model = Ptr(""), !.Resume = Ptr(""),
        !.Continue = Ptr(FALSE), !.MCPConfig = Ptr(""),
        !.PermissionMode = Ptr(""), !.PermissionPromptTool = Ptr(""),
        !.DangerouslySkipPermissions = Ptr(FALSE), !.Debug = Ptr(FALSE),
        !.InputFormat = Ptr("")]

CustomPath == "/opt/claude"
Executables == {Nil, Ptr(""), Ptr(CustomPath)}
OutputFormats ==
    {Nil, Ptr(OutputFormatText), Ptr(OutputFormatJSON), Ptr(OutputFormatStreamJSON)}
Verboses == {Nil, Ptr(TRUE), Ptr(FALSE)}

OptionsGiven ==
    {[base EXCEPT !.Executable = x, !.OutputFormat = f, !.Verbose = v] :
        base \in {NoOptions, OptionsSet, OptionsEmpty},
        x \in Executables, f \in OutputFormats, v \in Verboses}

Machines ==
    {Machine(files, onPath, npmGlobal) :
        files \in {{}, {CustomPath}}, onPath \in BOOLEAN, npmGlobal \in BOOLEAN}

Outputs == UNION {[1..n -> {"ok", "empty", "badjson"}] : n \in 0..MaxOut}

CmdInit ==
    /\ ProcInit
    /\ waitsEOF = FALSE
    /\ rawLine = NotJSON
    /\ dec = NotDecoded
    /\ again = NotDecoded
    /\ seen = NotSeen
    /\ opts \in OptionsGiven
    /\ host \in Machines
    /\ cmd = NoCmd
    /\ strategy = "none"

\* The child writes its output and ends.
ChildRun ==
    /\ child = "running"
    /\ out' \in Outputs
    /\ child' = "exited"
    /\ exitCode' = 0
    /\ errPipe' = ""
    /\ UNCHANGED <<decVars, obsVars, cmdVars, api, waitsEOF, ctxDone, watchFired, stdin,
                   promptWrites, waited, pc, rd, cur, queryVars, spc,
                   chanVars, callerVars>>

CmdNext ==
    \/ S_Setup \/ S_Start \/ SendPrompt \/ S_Scan \/ S_Wait
    \/ S_CloseErr \/ S_CloseMsg
    \/ Q_Setup \/ Q_Start \/ Q_Write \/ Q_ReadText \/ Q_Scan
    \/ Q_HandleReadError \/ Q_Wait
    \/ ChildRun \/ Recv \/ RecvErr

CmdSpec == CmdInit /\ [][CmdNext]_vars

\* ============================================== the decoder on its own
\* The decoding of one output line, for the lines below: the line is drawn
\* at the start and one of the two read loops decodes it.

\* Arrays of content of up to MaxArr elements are explored.
MaxArr == 2

TextObj == BlockObj(JStr("text"), JStr("t"), Absent, Absent, Absent, Absent, Absent)
TextObjNoText == BlockObj(JStr("text"), Absent, Absent, Absent, Absent, Absent, Absent)
ToolUseObj == BlockObj(JStr("tool_use"), Absent, JStr("tu1"), JStr("Bash"), Absent, Absent, Absent)
ToolResultObj ==
    BlockObj(JStr("tool_result"), Absent, Absent, Absent, JStr("tu1"), JStr("out"), JBool(TRUE))
BogusObj == BlockObj(JStr("bogus"), JStr("t"), Absent, Absent, Absent, Absent, Absent)
UntypedTextObj == BlockObj(Absent, JStr("u"), Absent, Absent, Absent, Absent, Absent)
EmptyObj == BlockObj(Absent, Absent, Absent, Absent, Absent, Absent, Absent)

\* Single content-block objects, and the elements of content arrays.
BlockObjs ==
    {TextObj, TextObjNoText, ToolUseObj, ToolResultObj, BogusObj,
     UntypedTextObj, EmptyObj}
Elems ==
    {JStr("a"), JNum(7, 0), TextObj, TextObjNoText, ToolUseObj, ToolResultObj,
     BogusObj, UntypedTextObj}
Arrays == UNION {[1..k -> Elems] : k \in 0..MaxArr}

\* Values of `content`, of `message` and of the other keys of a record.
Contents ==
    {Absent, JNull, JStr(""), JStr("hi"), JNum(7, 0)} \cup BlockObjs
        \cup {JArr(a) : a \in Arrays}
Messages == {Absent, JStr("m")} \cup {MessageObj(c) : c \in Contents}
Types ==
    {Absent, JNull, JNum(1, 0), JStr("system"), JStr("assistant"),
     JStr("user"), JStr("result"), JStr("bogus"), JStr("")}
SessionIDs == {Absent, JStr("s1"), JNum(7, 0)}
Timestamps ==
    {Absent, JStr("2024-01-01T00:00:00Z"), JStr("yesterday"), JNum(7, 0)}
Costs ==
    {Absent, JStr("0.5"), JNum(-5, -2), JNum(0, 0), JNum(25, -3), JNum(1, -400)}
\* parent_tool_use_id, subtype, is_error, result: all absent, all there, or
\* all of a JSON type that is not the type of the field.
Rests ==
    {[parent |-> Absent, subtype |-> Absent, is_error |-> Absent, result |-> Absent],
     [parent |-> JStr("tu0"), subtype |-> JStr("success"),
      is_error |-> JBool(TRUE), result |-> JStr("done")],
     [parent |-> JNum(7, 0), subtype |-> JBool(TRUE),
      is_error |-> JStr("yes"), result |-> JNull]}

\* Records of every type: every combination of the other keys with little
\* content, and every content with few combinations of the other keys.
HeaderRecords ==
    {Record(ty, s, r.parent, ts, r.subtype, m, c, r.is_error, r.result) :
        ty \in Types, s \in SessionIDs, ts \in Timestamps,
        m \in {Absent, JStr("m"), MessageObj(JStr("hi"))},
        c \in Costs, r \in Rests}
ContentRecords ==
    {Record(ty, s, r.parent, JStr("2024-01-01T00:00:00Z"), r.subtype, m,
            Absent, r.is_error, r.result) :
        ty \in Types, s \in {Absent, JStr("s1")}, m \in Messages, r \in Rests}
Records == HeaderRecords \cup ContentRecords

\* The non-empty lines: no JSON, JSON that is no object, and records.
Lines ==
    {NotJSON, JNull, JStr("x"), JNum(1, 0), JBool(TRUE), JArr(<<>>)} \cup Records

DecInit ==
    /\ ProcInit
    /\ waitsEOF = FALSE
    /\ rawLine \in Lines
    /\ dec = NotDecoded
    /\ again = NotDecoded
    /\ seen = NotSeen
    /\ opts = NoOptions
    /\ host = Machine({}, TRUE, FALSE)
    /\ cmd = NoCmd
    /\ strategy = "none"

\* streamMessages takes the line from the scanner and decodes it.
D_StreamLine ==
    /\ api = "QueryStream" /\ ~dec.done
    /\ \E now \in NowTimes :
           dec' = [done |-> TRUE, now |-> now, res |-> decodeLine(rawLine, now)]
    /\ UNCHANGED <<rawLine, again, seen, procVars, cmdVars>>

\* readMessages takes the line from the scanner and decodes it.
D_ReadLine ==
    /\ api = "Query" /\ ~dec.done
    /\ \E now \in NowTimes :
           dec' = [done |-> TRUE, now |-> now, res |-> decodeLine(rawLine, now)]
    /\ UNCHANGED <<rawLine, again, seen, procVars, cmdVars>>

\* The same line is decoded once more, at a moment of its own (the same
\* output in another query).
D_DecodeAgain ==
    /\ dec.done /\ ~again.done
    /\ \E now \in NowTimes :
           again' = [done |-> TRUE, now |-> now, res |-> decodeLine(rawLine, now)]
    /\ UNCHANGED <<rawLine, dec, seen, procVars, cmdVars>>

\* The caller calls Type(), Content() and Timestamp() on the decoded message.
D_Inspect ==
    /\ dec.done /\ dec.res.ok /\ ~seen.done
    /\ seen' = [done |-> TRUE, type |-> Type(dec.res.msg),
                content |-> Content(dec.res.msg),
                timestamp |-> Timestamp(dec.res.msg)]
    /\ UNCHANGED <<rawLine, dec, again, procVars, cmdVars>>

DecNext == D_StreamLine \/ D_ReadLine \/ D_DecodeAgain \/ D_Inspect

DecSpec == DecInit /\ [][DecNext]_vars

\* =================================================================== claims
Range(f) == {f[k] : k \in DOMAIN f}

IsPrefix(a, b) == Len(a) <= Len(b) /\ \A k \in 1..Len(a) : a[k] = b[k]

\* The lines among the first n of the output that hold a message, in line order.
OkLines(n) == SelectSeq([k \in 1..n |-> k], LAMBDA k : out[k] = "ok")

\* The messages those lines decode to, in line order.
Decoded(n) == [j \in 1..Len(OkLines(n)) |-> Msg(OkLines(n)[j])]

Streaming == api = "QueryStream"

\* QueryStream's goroutine has left its body: the deferred closes run or ran.
Closing == pc \in {"closeErr", "closeMsg", "done"}

\* The read loop ended at EOF without an error (streamMessages returned true).
CleanEOF == pc = "wait" \/ waited

\* C1: the messages the caller receives from the message channel are, in
\* order, the decodes of the first non-empty lines of the output: what was
\* received followed by what is buffered is exactly the list of messages of
\* the lines handled so far, in line order (the line being handled may still
\* wait to be sent), so of two received messages the one of the earlier line
\* came first.
C1_DeliveryInLineOrder ==
    Streaming =>
        /\ \A a, b \in 1..Len(received) :
               a < b => received[a].line < received[b].line
        /\ \/ received \o msgChan = Decoded(rd)
           \/ rd > 0 /\ received \o msgChan = Decoded(rd - 1)
        /\ pc = "parked" => cur = rd /\ out[rd] = "ok"

C1_Witness ==
    /\ Streaming
    /\ Len(received) >= 2
    /\ received[2].line > received[1].line + 1

\* C2 as stated: when the read loop ended at EOF with every line decoded and
\* the child exited on its own with status zero, nothing is ever sent on the
\* error channel, and at the end every decoded message was placed on the
\* message channel and both channels are closed.
C2_SilentCompletionAsStated ==
    (Streaming /\ CleanEOF /\ child = "exited" /\ exitCode = 0) =>
        /\ errSent = <<>>
        /\ sent = Decoded(Len(out))
        /\ received \o msgChan = sent
        /\ pc = "done" => msgClosed /\ errClosed

\* C2 amended: the same, provided the cancellation of the context has not
\* signalled the child before it was waited for.
C2_SilentCompletion ==
    (Streaming /\ CleanEOF /\ child = "exited" /\ exitCode = 0 /\ ~watchFired) =>
        /\ errSent = <<>>
        /\ errChan = <<>>
        /\ sent = Decoded(Len(out))
        /\ received \o msgChan = sent
        /\ pc = "done" => msgClosed /\ errClosed

C2_Witness ==
    /\ Streaming /\ pc = "done" /\ waited
    /\ child = "exited" /\ exitCode = 0 /\ ~watchFired
    /\ Len(sent) >= 2 /\ Len(out) > Len(sent)
    /\ msgClosed /\ errClosed /\ errSent = <<>>

\* C3: a child that ends on its own with a non-zero status c, having written d
\* to stderr, makes the query that waited for it fail with
\* ProcessError{ExitCode: c, Stderr: d}.
C3_ProcessErrorCarriesStderr ==
    (waited /\ child = "exited" /\ exitCode # 0) =>
        /\ Streaming => errSent = <<ProcessError(exitCode, errPipe)>>
        /\ ~Streaming => ret.err = ProcessError(exitCode, errPipe)

\* C4: a line that fails to decode ends the read loop at that line: its
\* CLIJSONDecodeError is the one error sent, the goroutine has left the loop,
\* no later line is taken from the output, and only messages of earlier lines
\* were ever placed on the message channel.
C4_DecodeFailureStopsLoop ==
    Streaming =>
        /\ (rd > 0 /\ out[rd] \in {"badjson", "badmsg"}) =>
               /\ errSent = <<CLIJSONDecodeError(rd)>>
               /\ Closing
               /\ sent = Decoded(rd)
               /\ received \o msgChan = sent
        /\ \A k \in 1..Len(errSent) :
               errSent[k].class = "CLIJSONDecodeError" =>
                   /\ errSent[k].line = rd
                   /\ out[rd] \in {"badjson", "badmsg"}
        /\ \A k \in 1..rd : out[k] \in FailingKinds => k = rd

C4_Witness ==
    /\ Streaming /\ pc = "done"
    /\ rd = 2 /\ out[2] = "badmsg" /\ Len(out) = 3 /\ out[3] = "ok"
    /\ errSent = <<CLIJSONDecodeError(2)>>
    /\ received = <<Msg(1)>>

\* C5: once the caller has cancelled after receiving a message, the
\* orchestrator takes no further line from the output and places no further
\* message on the message channel.
C5_NothingAfterCancel ==
    [][(Streaming /\ ctxDone /\ cancelAt >= 1) => (rd' = rd /\ sent' = sent)]_vars

\* C6: a cancellation that arrives while the send of a decoded message is
\* blocked takes the goroutine out of the send (it is never left blocked with
\* the context done), the loop is left, ctx.Err() is the one error sent, and
\* the message of the line that was being sent is never placed on the message
\* channel nor received.
C6_CancelAbortsPendingSend ==
    Streaming =>
        /\ pc = "parked" => ~ctxDone
        /\ pc = "aborting" =>
               /\ ctxDone /\ cur = rd /\ errSent = <<>>
               /\ Msg(cur) \notin Range(sent)
        /\ (\E k \in 1..Len(errSent) : errSent[k] = CtxErr) =>
               /\ errSent = <<CtxErr>>
               /\ Closing /\ cur = 0
               /\ out[rd] = "ok"
               /\ Msg(rd) \notin Range(sent) \cup Range(received) \cup Range(msgChan)

\* A send was blocked on the full channel when the caller cancelled: the
\* goroutine has left the select through <-ctx.Done(), the message of line
\* MsgChanCap + 1 in its hand.
C6_Witness ==
    /\ Streaming /\ pc = "aborting"
    /\ ctxDone /\ cur = MsgChanCap + 1
    /\ Len(received) + Len(msgChan) = MsgChanCap

\* C7: when an error is placed on the error channel, every message decoded
\* from the lines before the one the loop ended at is already on the message
\* channel; what was placed stays receivable, before and after the close:
\* a placed message is either received or still buffered.
C7_PartialResultsKept ==
    Streaming =>
        /\ received \o msgChan = sent
        /\ errSent # <<>> =>
               /\ IsPrefix(Decoded(IF rd > 0 THEN rd - 1 ELSE 0), sent)
               /\ IsPrefix(sent, Decoded(rd))
        /\ \A k \in 1..Len(errSent) :
               errSent[k].class \in {"ProcessError", "CLIJSONDecodeError"} =>
                   sent = Decoded(rd)

C7_Witness ==
    /\ Streaming /\ msgClosed
    /\ errSent # <<>>
    /\ Len(received) >= 1 /\ Len(msgChan) >= 1

\* C8: whenever Query returns an error, the list it returns is empty.
C8_NoListWithError ==
    (api = "Query" /\ ret.returned /\ ret.err # NoErr) => ret.msgs = <<>>

\* C9: Query reports a failing output line as QueryStream does: a line that
\* fails to decode as CLIJSONDecodeError, a read failure as CLIConnectionError.
C9_SameClassification ==
    (pc = "done" /\ rd > 0 /\ out[rd] \in FailingKinds) =>
        /\ Streaming => errSent[1].class = StreamLineError(out[rd], rd).class
        /\ ~Streaming => ret.err.class = StreamLineError(out[rd], rd).class

\* Every step of the query, the child and the caller but the cancellation.
Progress ==
    \/ S_Setup \/ S_Start \/ SendPrompt \/ S_Scan \/ S_Abort \/ S_Wait
    \/ S_CloseErr \/ S_CloseMsg
    \/ Q_Setup \/ Q_Start \/ Q_Write \/ Q_Scan \/ Q_HandleReadError \/ Q_Wait
    \/ ChildWrite \/ ChildFillStderr \/ ChildExit \/ CtxWatch
    \/ Recv \/ RecvErr \/ SeeClosed

\* C10: the prompt is written at most once, and with a child that writes its
\* output and exits only after end-of-input the query never waits for the
\* child while the child waits for the end of its input: short of a
\* cancellation, a query that has not ended can always advance.
C10_InputClosedWithoutWaiting ==
    /\ promptWrites <= 1
    /\ (waitsEOF /\ ~ctxDone /\ pc # "done") => ENABLED Progress

\* The one Write of the prompt has been made and failed (the child had
\* already gone): sendPrompt has finished, or Query has passed its Write,
\* with no successful write.
PromptWriteFailed ==
    /\ promptWrites = 0
    /\ child # "none"
    /\ IF Streaming THEN spc = "done" ELSE pc = "done"

\* C11: in Query and in QueryStream, a failed write of the prompt reaches the
\* caller as a CLIConnectionError: returned by Query, sent on the error
\* channel by QueryStream.
C11_PromptWriteFailureReported ==
    (pc = "done" /\ PromptWriteFailed) =>
        IF Streaming
        THEN \E k \in 1..Len(errSent) : errSent[k].class = "CLIConnectionError"
        ELSE ret.err.class = "CLIConnectionError"

\* ------------------------------------------------- claims on the decoder
\* A read loop has decoded the line, which is a JSON object / a record of a
\* type whose content is decoded and that has `message.content`.
DecodedRecord == dec.done /\ rawLine.t = "object"
DecodedContent ==
    /\ DecodedRecord
    /\ IsString(rawLine.v.type) /\ rawLine.v.type.v \in {"assistant", "user"}
    /\ IsObject(rawLine.v.message)
    /\ Present(rawLine.v.message.v.content)
ContentOf == rawLine.v.message.v.content
KnownTypes == {"system", "assistant", "user", "result"}
BlockTypes == {"text", "tool_use", "tool_result"}

\* C12: a JSON object whose `type` is a string other than system, assistant,
\* user and result decodes without an error to a SystemMessage whose Subtype
\* is that string, whose SessionID is the record's session_id ("" when that
\* is no string) and whose CreatedAt is the record's timestamp (the time of
\* decoding when that is no RFC 3339 text).
C12_UnknownTypeIsSystemMessage ==
    (DecodedRecord /\ IsString(rawLine.v.type)
                   /\ rawLine.v.type.v \notin KnownTypes) =>
        /\ dec.res.ok
        /\ dec.res.err = NoDecodeError
        /\ dec.res.msg.variant = "system"
        /\ dec.res.msg.Subtype = rawLine.v.type.v
        /\ dec.res.msg.SessionID =
               (IF rawLine.v.session_id.t = "string"
                THEN rawLine.v.session_id.v ELSE "")
        /\ dec.res.msg.CreatedAt =
               (IF rawLine.v.timestamp = JStr("2024-01-01T00:00:00Z")
                THEN 1 ELSE dec.now)

C12_Witness ==
    /\ DecodedRecord
    /\ rawLine.v.type = JStr("bogus")
    /\ rawLine.v.session_id = JStr("s1")
    /\ rawLine.v.timestamp = JStr("2024-01-01T00:00:00Z")
    /\ dec.res.ok /\ dec.res.msg.Subtype = "bogus" /\ dec.res.msg.CreatedAt = 1

\* C13: a JSON object whose `type` is missing or is no JSON string fails to
\* decode with a CLIJSONDecodeError and gives no message, whatever its other
\* fields are.
C13_MissingTypeFails ==
    (DecodedRecord /\ rawLine.v.type.t # "string") =>
        /\ ~dec.res.ok
        /\ dec.res.err.class = "CLIJSONDecodeError"
        /\ dec.res.msg = NoMessage

C13_Witness ==
    /\ DecodedRecord
    /\ rawLine.v.type = JNum(1, 0)
    /\ rawLine.v.session_id = JStr("s1")
    /\ rawLine.v.message = MessageObj(JStr("hi"))
    /\ ~dec.res.ok

\* C14: a non-empty line that is no valid JSON, or whose top level is no JSON
\* object, fails in readMessages and in streamMessages with a
\* CLIJSONDecodeError whose Data is the line as it was read.
C14_NonObjectLineCarriesLine ==
    (dec.done /\ rawLine.t # "object") =>
        /\ ~dec.res.ok
        /\ dec.res.err.class = "CLIJSONDecodeError"
        /\ dec.res.err.data = RawLine(rawLine)

\* C15: every CLIJSONDecodeError made in decoding an output line carries in
\* Data the line as it was read.
C15_DecodeErrorCarriesLine ==
    (dec.done /\ dec.res.err.class = "CLIJSONDecodeError") =>
        dec.res.err.data = RawLine(rawLine)

\* C16: content that is the bare JSON string s decodes to exactly one block,
\* the TextBlock with Text = s, the empty string included.
C16_StringContentIsOneTextBlock ==
    (DecodedContent /\ ContentOf.t = "string") =>
        /\ dec.res.ok
        /\ Len(dec.res.msg.ContentBlocks) = 1
        /\ dec.res.msg.ContentBlocks[1].variant = "text"
        /\ dec.res.msg.ContentBlocks[1].Text = ContentOf.v

C16_Witness ==
    /\ DecodedContent
    /\ ContentOf = JStr("")
    /\ dec.res.msg.ContentBlocks = <<TextBlock("")>>

\* C17: a content array that decodes has as many blocks as elements, the
\* i-th block being the decoding of the i-th element on its own.
C17_ArrayBlocksInOrder ==
    (DecodedContent /\ ContentOf.t = "array" /\ dec.res.ok) =>
        /\ Len(dec.res.msg.ContentBlocks) = Len(ContentOf.v)
        /\ \A i \in 1..Len(ContentOf.v) :
               /\ parseContentBlock(ContentOf.v[i]).ok
               /\ dec.res.msg.ContentBlocks[i] = parseContentBlock(ContentOf.v[i]).block
               /\ ContentOf.v[i].t = "string" =>
                      dec.res.msg.ContentBlocks[i] = TextBlock(ContentOf.v[i].v)

C17_Witness ==
    /\ DecodedContent
    /\ ContentOf = JArr(<<JStr("a"), ToolUseObj>>)
    /\ dec.res.ok
    /\ dec.res.msg.ContentBlocks = <<TextBlock("a"), ToolUseBlock("tu1", "Bash")>>

\* An array element that is neither an object nor a string, or an object
\* whose `type` is a string that names no kind of block.
BadElement(x) ==
    \/ x.t \notin {"object", "string"}
    \/ x.t = "object" /\ IsString(x.v.type) /\ x.v.type.v \notin BlockTypes

\* C18: a content array of an assistant or user record with such an element
\* at any place makes the decoding of the line fail with a
\* CLIJSONDecodeError: no message and no content blocks come of it.
C18_BadElementFailsMessage ==
    (DecodedContent /\ ContentOf.t = "array"
                    /\ \E i \in 1..Len(ContentOf.v) : BadElement(ContentOf.v[i])) =>
        /\ ~dec.res.ok
        /\ dec.res.err.class = "CLIJSONDecodeError"
        /\ dec.res.msg = NoMessage
        /\ dec.res.msg.ContentBlocks = <<>>

C18_Witness ==
    /\ DecodedContent
    /\ ContentOf = JArr(<<TextObj, BogusObj>>)
    /\ ~dec.res.ok
    /\ dec.res.err.cause = "unknown content block type"

\* Content that is a single JSON object has been decoded.
DecodedObjectContent == DecodedContent /\ ContentOf.t = "object"

\* C19 as stated: content that is one JSON object decodes to exactly one
\* block of the variant its `type` names (text, tool_use, tool_result); an
\* object without a string `type` but with a string `text` decodes to the
\* TextBlock of that text, and an object with neither fails with a
\* CLIJSONDecodeError.
C19_ObjectContentAsStated ==
    DecodedObjectContent =>
        /\ (IsString(ContentOf.v.type) /\ ContentOf.v.type.v \in BlockTypes) =>
               /\ dec.res.ok
               /\ Len(dec.res.msg.ContentBlocks) = 1
               /\ dec.res.msg.ContentBlocks[1].variant = ContentOf.v.type.v
        /\ (~IsString(ContentOf.v.type) /\ IsString(ContentOf.v.text)) =>
               /\ dec.res.ok
               /\ dec.res.msg.ContentBlocks = <<TextBlock(ContentOf.v.text.v)>>
        /\ (~IsString(ContentOf.v.type) /\ ~IsString(ContentOf.v.text)) =>
               /\ ~dec.res.ok
               /\ dec.res.err.class = "CLIJSONDecodeError"

\* C19: the same, but an object of type text decodes to a TextBlock only
\* when its `text` is a string, and fails with a CLIJSONDecodeError when
\* it is not.
C19_ObjectContent ==
    DecodedObjectContent =>
        /\ (IsString(ContentOf.v.type) /\ ContentOf.v.type.v \in BlockTypes
                /\ (ContentOf.v.type.v = "text" => IsString(ContentOf.v.text))) =>
               /\ dec.res.ok
               /\ Len(dec.res.msg.ContentBlocks) = 1
               /\ dec.res.msg.ContentBlocks[1].variant = ContentOf.v.type.v
        /\ (ContentOf.v.type = JStr("text") /\ ~IsString(ContentOf.v.text)) =>
               /\ ~dec.res.ok
               /\ dec.res.err.class = "CLIJSONDecodeError"
        /\ (~IsString(ContentOf.v.type) /\ IsString(ContentOf.v.text)) =>
               /\ dec.res.ok
               /\ dec.res.msg.ContentBlocks = <<TextBlock(ContentOf.v.text.v)>>
        /\ (~IsString(ContentOf.v.type) /\ ~IsString(ContentOf.v.text)) =>
               /\ ~dec.res.ok
               /\ dec.res.err.class = "CLIJSONDecodeError"

C19_Witness ==
    /\ DecodedObjectContent
    /\ ContentOf = TextObjNoText
    /\ ~dec.res.ok
    /\ dec.res.err.cause = "missing text in text block"

\* A result record has been decoded.
DecodedResult == DecodedRecord /\ rawLine.v.type = JStr("result")
CostOf == rawLine.v.total_cost_usd

\* C20 as stated: the TotalCostUSD of a result record is non-nil and equal
\* to total_cost_usd when that is a number greater than zero, and nil when
\* it is zero, absent, negative or no number.
C20_CostAsStated ==
    DecodedResult =>
        /\ dec.res.ok
        /\ (CostOf.t = "number" /\ CostOf.v.m > 0) =>
               dec.res.msg.TotalCostUSD = Ptr(CostOf.v)
        /\ (CostOf.t # "number" \/ CostOf.v.m <= 0) =>
               dec.res.msg.TotalCostUSD = Nil

\* C20: the same with "greater than zero" read of the float64 that the
\* number is parsed to: a positive number under the range of float64 is
\* parsed to zero and leaves TotalCostUSD nil.
C20_Cost ==
    DecodedResult =>
        /\ dec.res.ok
        /\ (CostOf.t = "number" /\ CostOf.v.m > 0 /\ CostOf.v.e >= Float64MinExp10) =>
               dec.res.msg.TotalCostUSD = Ptr(CostOf.v)
        /\ (CostOf.t # "number" \/ CostOf.v.m <= 0 \/ CostOf.v.e < Float64MinExp10) =>
               dec.res.msg.TotalCostUSD = Nil

C20_Witness ==
    /\ DecodedResult
    /\ CostOf = JNum(25, -3)
    /\ dec.res.ok /\ dec.res.msg.TotalCostUSD = Ptr([m |-> 25, e |-> -3])

\* C21: a JSON object whose `type` is system or result decodes without an
\* error whatever its other fields are, a field that is missing or of the
\* wrong JSON type giving the zero value or nil of that field; a record
\* with a string `type` fails to decode only in the content of an
\* assistant or user record.
C21_SystemAndResultNeverFail ==
    /\ (DecodedRecord /\ rawLine.v.type \in {JStr("system"), JStr("result")}) =>
           /\ dec.res.ok
           /\ dec.res.err = NoDecodeError
           /\ dec.res.msg.variant = rawLine.v.type.v
           /\ rawLine.v.subtype.t # "string" => dec.res.msg.Subtype = ""
           /\ rawLine.v.session_id.t # "string" => dec.res.msg.SessionID = ""
           /\ rawLine.v.is_error.t # "bool" => dec.res.msg.IsError = FALSE
           /\ rawLine.v.total_cost_usd.t # "number" => dec.res.msg.TotalCostUSD = Nil
           /\ rawLine.v.result.t # "string" => dec.res.msg.Result = Nil
    /\ (DecodedRecord /\ rawLine.v.type.t = "string" /\ ~dec.res.ok) =>
           DecodedContent

\* C22: two decodings of the same line, a valid JSON record of a known type,
\* at any two moments give messages that are equal in every field, CreatedAt
\* included also when the record has no `timestamp` that can be parsed.
C22_DecodingIsDeterministic ==
    (DecodedRecord /\ again.done /\ rawLine.v.type.t = "string"
                   /\ rawLine.v.type.v \in KnownTypes /\ dec.res.ok) =>
        /\ again.res.ok
        /\ again.res.msg = dec.res.msg

\* The lines of the output that are not empty, in order.
NonEmptyLines == SelectSeq([k \in 1..Len(out) |-> k], LAMBDA k : out[k] # "empty")

\* C23: when a query ends without an error, the messages that Query returns
\* or that QueryStream has put on the message channel (those received and
\* those still to be received) are the decodings of the non-empty lines of
\* the child's output, one for one and in order.
C23_OneMessagePerNonEmptyLine ==
    /\ (api = "Query" /\ ret.returned /\ ret.err = NoErr) =>
           ret.msgs = [j \in 1..Len(NonEmptyLines) |-> Msg(NonEmptyLines[j])]
    /\ (Streaming /\ pc = "done" /\ errSent = <<>>) =>
           /\ sent = [j \in 1..Len(NonEmptyLines) |-> Msg(NonEmptyLines[j])]
           /\ received \o msgChan = sent

C23_Witness ==
    /\ Streaming /\ pc = "done" /\ errSent = <<>>
    /\ out = <<"ok", "empty", "ok">>
    /\ received = <<Msg(1), Msg(3)>>

\* C25: the message channel never buffers more than 10 messages; a send that
\* finds the buffer full blocks with its message in hand, and while it is
\* blocked no further line is read and nothing is decoded or placed, until
\* the caller receives a message or the context is cancelled.
C25_BoundedChannelBackpressure ==
    [][ /\ Len(msgChan') <= 10
        /\ (Streaming /\ pc = "parked") =>
               /\ Len(msgChan) = 10 /\ cur = rd /\ ~ctxDone
               /\ rd' = rd /\ errSent' = errSent
               /\ \/ pc' = "parked" /\ sent' = sent /\ msgChan' = msgChan
                  \/ Len(received') = Len(received) + 1 /\ pc' = "scan"
                       /\ sent' = Append(sent, Msg(cur))
                  \/ ctxDone' /\ pc' = "aborting" /\ sent' = sent
      ]_vars

\* The send of the message of line 11 is blocked on the full buffer while
\* the child has written a line more, which stays unread.
C25_Witness ==
    /\ Streaming /\ pc = "parked"
    /\ Len(msgChan) = 10 /\ received = <<>>
    /\ cur = 11 /\ rd = 11 /\ Len(out) = 12

\* ------------------------------------------------------------------- C24
\* The caller named an executable, and the executable cannot be found:
\* the named file does not exist, or, none named, claude is neither on the
\* PATH nor in npm's global root.
PathGiven == opts.Executable.t = "ptr" /\ opts.Executable.v # ""
SuppliedPath == IF PathGiven THEN opts.Executable.v ELSE ""
NotLocated ==
    IF PathGiven THEN opts.Executable.v \notin host.files
    ELSE ~host.onPath /\ ~host.npmGlobal

Count(args, arg) == Cardinality({k \in 1..Len(args) : args[k] = arg})
ArgAfter(args, flag) ==
    LET k == CHOOSE j \in 1..(Len(args) - 1) : args[j] = flag IN args[k + 1]

\* The output format in force for the options the command line is built
\* from: QueryStream's copy asks for stream-json, Query's are the caller's,
\* with stream-json when the caller set none.
CommandBuilt == cmd # NoCmd
FormatInForce ==
    IF Streaming \/ opts.OutputFormat = Nil THEN "stream-json"
    ELSE opts.OutputFormat.v

\* C26: the command line holds --verbose exactly once when Verbose is true
\* or the output format in force is stream-json, and not at all otherwise.
C26_VerboseOnce ==
    CommandBuilt =>
        Count(cmd.args, "--verbose") =
            IF opts.Verbose = Ptr(TRUE) \/ FormatInForce = "stream-json"
            THEN 1 ELSE 0

\* A Query with Verbose true and the stream-json format, both reasons for the
\* flag, has built its command line.
C26_Witness ==
    /\ api = "Query" /\ CommandBuilt
    /\ opts.Verbose = Ptr(TRUE) /\ opts.OutputFormat = Ptr("stream-json")
    /\ Count(cmd.args, "--verbose") = 1

\* ------------------------------------------------------------------- C27
\* C27: the command line starts with --print and holds --output-format
\* exactly once; in Query its value is the output format in force (the
\* caller's, stream-json by default) and the output is read as text exactly
\* when that format is text, line by line as JSON otherwise; in QueryStream
\* the value is stream-json and the output is read line by line as JSON
\* whatever format the caller supplied.
C27_FormatMatchesDecoding ==
    /\ CommandBuilt =>
           /\ cmd.args[1] = "--print"
           /\ Count(cmd.args, "--output-format") = 1
           /\ Count(cmd.args, "--print") = 1
           /\ ArgAfter(cmd.args, "--output-format") = FormatInForce
    /\ strategy # "none" =>
           /\ CommandBuilt
           /\ strategy = IF ArgAfter(cmd.args, "--output-format") = "text"
                          THEN "text" ELSE "lines"
    /\ Streaming => strategy \in {"none", "lines"}

\* A Query that asked for the text format has read its output as text.
C27_Witness ==
    /\ api = "Query" /\ opts.OutputFormat = Ptr("text") /\ pc = "done"
    /\ CommandBuilt
    /\ ArgAfter(cmd.args, "--output-format") = "text"
    /\ strategy = "text"

\* ------------------------------------------------------------------- C28
\* C28: when the caller sets no OutputFormat, Query asks for the text format
\* and reads its output as text, and QueryStream asks for stream-json and
\* reads it line by line.
C28_DefaultFormats ==
    (opts.OutputFormat = Nil /\ CommandBuilt) =>
        /\ ArgAfter(cmd.args, "--output-format") =
               IF Streaming THEN "stream-json" ELSE "text"
        /\ strategy # "none" =>
               strategy = IF Streaming THEN "lines" ELSE "text"

\* ------------------------------------------------------------------- C29
\* All the bytes the child wrote, in order.
RECURSIVE BytesOfFirst(_)
BytesOfFirst(n) ==
    IF n = 0 THEN <<>> ELSE BytesOfFirst(n - 1) \o LineBytes(out[n])
WholeOutput == BytesOfFirst(Len(out))

\* C29: a Query with the text format whose output was read gives exactly
\* one message, a ResultMessage with Subtype text_output whose Result is the
\* whole output byte for byte, also when the output is empty, has several
\* lines or is not JSON.
C29_TextOutputIsOneResult ==
    (api = "Query" /\ opts.OutputFormat = Ptr("text") /\ strategy # "none") =>
        /\ Len(messages) = 1
        /\ messages[1].variant = "result"
        /\ messages[1].Subtype = "text_output"
        /\ messages[1].Result = Ptr(WholeOutput)
        /\ (ret.returned /\ ret.err = NoErr) => ret.msgs = messages

\* A text Query has returned the two lines of its output, one of them empty
\* and the other not JSON, as one result.
C29_Witness ==
    /\ api = "Query" /\ opts.OutputFormat = Ptr("text")
    /\ ret.returned /\ ret.err = NoErr
    /\ out = <<"empty", "badjson">>
    /\ Len(ret.msgs) = 1
    /\ ret.msgs[1].Result = Ptr(<<"\n", "not json", "\n">>)

\* ------------------------------------------------------------------- C30
\* The caller has called the methods of a message decoded from a record.
Inspected == DecodedRecord /\ dec.res.ok /\ seen.done

\* C30 as stated: every decoded message has one of the four variant tags,
\* Type() returns it, a record of a type in that set decodes to the variant
\* of that type, and Content() and Timestamp() return the content blocks and
\* the CreatedAt the message holds.
C30_AccessorsAsStated ==
    Inspected =>
        /\ dec.res.msg.variant \in KnownTypes
        /\ seen.type = dec.res.msg.variant
        /\ (IsString(rawLine.v.type) /\ rawLine.v.type.v \in KnownTypes) =>
               dec.res.msg.variant = rawLine.v.type.v
        /\ seen.content = dec.res.msg.ContentBlocks
        /\ seen.timestamp = dec.res.msg.CreatedAt

\* C30, amended: as above, but Content() returns the content blocks held only
\* for an assistant or user message; for a system message it returns no
\* block, and for a result message one text block with the text of Result
\* when Result is set, no block otherwise.
C30_Accessors ==
    Inspected =>
        LET m == dec.res.msg IN
        /\ m.variant \in KnownTypes
        /\ seen.type = m.variant
        /\ (IsString(rawLine.v.type) /\ rawLine.v.type.v \in KnownTypes) =>
               m.variant = rawLine.v.type.v
        /\ m.variant \in {"assistant", "user"} => seen.content = m.ContentBlocks
        /\ m.variant = "system" => seen.content = <<>>
        /\ (m.variant = "result" /\ m.Result = Nil) => seen.content = <<>>
        /\ (m.variant = "result" /\ m.Result # Nil) =>
               /\ Len(seen.content) = 1
               /\ seen.content[1].variant = "text"
               /\ seen.content[1].Text = m.Result.v
        /\ seen.timestamp = m.CreatedAt

\* The methods were called on a result message decoded from a record with a
\* result text and a valid timestamp.
C30_Witness ==
    /\ Inspected /\ rawLine.v.type = JStr("result")
    /\ IsString(rawLine.v.result)
    /\ seen.type = "result" /\ Len(seen.content) = 1
    /\ seen.timestamp = 1

\* ------------------------------------------------------------------- C31
\* The messages an output of lines gives: those of its well-formed lines.
FromOutput(msgs) ==
    \A k \in 1..Len(msgs) :
        \E i \in 1..Len(out) : out[i] = "ok" /\ msgs[k] = Msg(i)

\* C31: every message sent on the message channel or returned by Query is
\* the message of an output line, never of diagnostic text; the diagnostic
\* stream is read only when the reading of the output has ended (all the
\* output of the terminated child was taken, or the read loop of Query
\* failed), and its text appears only as the Stderr of a ProcessError.
C31_StderrNotInMessages ==
    [][ /\ FromOutput(sent') /\ FromOutput(ret'.msgs) /\ FromOutput(messages')
        /\ (stderrRead' /\ ~stderrRead) =>
               \/ api = "Query" /\ pc = "readerr"
               \/ pc = "wait" /\ Terminated /\ rd = Len(out)
        /\ \A k \in 1..Len(errSent') :
               errSent'[k].stderr # "" =>
                   errSent'[k].class = "ProcessError" /\ stderrRead'
        /\ ret'.err.stderr # "" =>
               ret'.err.class = "ProcessError" /\ stderrRead' ]_vars

\* A stream delivered a message, its child wrote diagnostic text and failed,
\* and the stream read stderr for the ProcessError it sent.
C31_Witness ==
    /\ Streaming /\ pc = "done" /\ stderrRead
    /\ errPipe = "auth failed" /\ received # <<>>
    /\ Len(errSent) = 1 /\ errSent[1].class = "ProcessError"

\* ------------------------------------------------------------------- C32
\* The stream has ended on a line that failed to decode.
EndedOnDecodeFailure ==
    /\ Streaming /\ pc = "done"
    /\ errSent # <<>> /\ errSent[1].class = "CLIJSONDecodeError"

\* C32: when a decode failure has ended the read loop of QueryStream, no
\* line after the failing one is read and no message of a later line is
\* sent, and the diagnostic stream has been read when the query ends.
C32_DiagnosticsAfterDecodeFailure ==
    EndedOnDecodeFailure =>
        /\ errSent[1].line = rd
        /\ \A k \in 1..Len(sent) : sent[k].line < rd
        /\ stderrRead

\* ------------------------------------------------------------------- C33
\* C33: a caller that takes the closure of the message channel for the
\* successful end never does so in a stream that sent an error: it has
\* received the error when it finds the message channel closed.
C33_ErrorSeenBeforeClosed ==
    (Streaming /\ sawClosed # -1 /\ errSent # <<>>) => sawClosed >= 1

\* ------------------------------------------------------------------- C34
\* The goroutine of QueryStream is at a place from which it may still send
\* on the error channel.
MaySendError ==
    Streaming /\ pc \in {"setup", "start", "scan", "parked", "aborting", "wait"}

\* C34: a stream sends at most one value on the error channel, and every
\* send finds the buffer of capacity 1 empty whether or not the caller has
\* received anything: wherever the goroutine may still send, nothing has
\* been sent.
C34_OneErrorNeverBlocks ==
    /\ Len(errSent) <= 1
    /\ Len(errChan) <= ErrChanCap
    /\ MaySendError => errSent = <<>> /\ errChan = <<>>

\* A stream has ended with its one error still in the buffer, the caller
\* having received nothing from the error channel.
C34_Witness ==
    /\ Streaming /\ pc = "done"
    /\ Len(errSent) = 1 /\ errChan = errSent /\ errsReceived = <<>>
    /\ sent # <<>>

\* ------------------------------------------------------------------- C35
\* C35: once a value has been sent on the error channel, no message is sent
\* on the message channel.
C35_NoMessageAfterError ==
    [][errSent # <<>> => sent' = sent]_vars

\* A stream failed after it had sent a message, with output left unread,
\* and has ended.
C35_Witness ==
    /\ Streaming /\ pc = "done"
    /\ errSent # <<>> /\ sent # <<>> /\ rd < Len(out)
    /\ out[rd + 1] = "ok"

\* ------------------------------------------------------------------- C36
\* C36: the message channel is closed only when the error channel is closed
\* with every error sent received or still in its buffer; a closed channel
\* stays closed and is not closed again, and nothing is sent on the error
\* channel once it is closed; so a caller that has seen the message
\* channel closed finds the error, if one was sent, received or waiting in
\* the closed error channel, and an empty closed channel otherwise.
C36_ErrorBufferedBeforeClose ==
    [][ /\ (msgClosed' /\ ~msgClosed) =>
               errClosed /\ errsReceived \o errChan = errSent
        /\ msgClosed => (msgClosed' /\ pc # "closeMsg")
        /\ errClosed => (errClosed' /\ pc # "closeErr" /\ errSent' = errSent)
        /\ sawClosed' # -1 =>
               /\ errClosed' /\ msgClosed'
               /\ errsReceived' \o errChan' = errSent' ]_vars

\* The caller saw the message channel closed before it had received
\* anything from the error channel, and then received the error.
C36_Witness ==
    /\ Streaming /\ sawClosed = 0
    /\ Len(errSent) = 1 /\ errsReceived = errSent /\ errChan = <<>>

\* ------------------------------------------------------------------- C37
\* The child, once started, eventually closes its output and exits: from
\* some moment on it is not running.
ChildEnds == <>[](child # "running")

\* The caller keeps receiving the messages offered to it.
KeepsReceiving == WF_vars(Recv)

\* C37: a stream whose child eventually closes its output and exits, and
\* whose caller keeps receiving messages or eventually cancels the context,
\* eventually has closed both channels.
C37_ChannelsEventuallyClosed ==
    (ChildEnds /\ (KeepsReceiving \/ <>ctxDone)) =>
        <>(msgClosed /\ errClosed /\ pc = "done")

\* The goroutine was blocked in its send on the full message channel, the
\* caller cancelled instead of receiving, and both channels are closed.
C37_Witness ==
    /\ Streaming /\ msgClosed /\ errClosed
    /\ Len(msgChan) = MsgChanCap /\ received = <<>>
    /\ cancelAt = 0 /\ errSent = <<CtxErr>>

\* C38: a child that writes more diagnostic text than the pipe holds before
\* it closes its output never blocks the query for ever: short of a
\* cancellation, a query that has not ended can always advance once the
\* child has filled the pipe.
C38_DiagnosticsNeverBlock ==
    (errPipe = PipeFull /\ ~ctxDone /\ pc # "done") => ENABLED Progress

\* C39: a query that has ended has waited (cmd.Wait) for every child it
\* started, whichever way it ended.
C39_StartedChildIsWaitedFor ==
    (pc = "done" /\ child # "none") => waited

====
